---------------------------- MODULE Spec2Model ----------------------------
(***************************************************************************)
(* A model of the simulation core of the Slither.io clone: the quadtree    *)
(* (js/quadtree.js), the snake (js/snake.js), the collision pass           *)
(* (js/collision.js) and the per-tick orchestration (js/gameState.js).     *)
(*                                                                         *)
(* Lengths of the quadtree are held in units of 1/SubPixel px, so that the *)
(* five halvings of the 5000 px world are exact integers.  Snake sizes are *)
(* held in units of 1/SizeUnit (BOOST_CONSUMPTION = 0.05 = 1/20).          *)
(***************************************************************************)
EXTENDS Integers, Sequences, FiniteSets, TLC

VARIABLES
    qtree,      \* CollisionSystem.quadtree: the root QuadTree node
    inserted,   \* history: the boxes inserted since the last clear()
    qpalette,   \* the kinds of boxes this run inserts
    snake,      \* one Snake (a Player or an NPC) on its own
    sop,        \* the method of the snake that ran last
    sret,       \* what that method returned
    centities,  \* the entities array handed to checkCollisions
    cbefore,    \* history: that array as it was when the pass began
    cdeaths,    \* history: the die() calls of the pass, in call order
    cnew,       \* the newEntities array checkCollisions returned
    cphase,     \* "placed" before the pass, "resolved" after it
    game,       \* the GameState object
    glast,      \* history: the handler of the game that ran last
    call,       \* the function of Utils or Snake called last, with its arguments
    ret,        \* what that call returned
    npc,        \* one NPC with its decision state
    nlast       \* history: what the last NPC.update() did

qvars == <<qtree, inserted, qpalette>>
svars == <<snake, sop, sret>>
cvars == <<centities, cbefore, cdeaths, cnew, cphase>>
gvars == <<game, glast>>
uvars == <<call, ret>>
nvars == <<npc, nlast>>
vars == <<qtree, inserted, qpalette, snake, sop, sret,
          centities, cbefore, cdeaths, cnew, cphase, game, glast,
          call, ret, npc, nlast>>

(***************************************************************************)
(* CONFIG (js/config.js)                                                   *)
(***************************************************************************)
WORLD_WIDTH == 5000
WORLD_HEIGHT == 5000
MAX_OBJECTS == 10
MAX_LEVELS == 5
PLAYER_INITIAL_SIZE == 10
MIN_SEGMENTS_FOR_BOOST == 5
FOOD_VALUE == 1
DEATH_FOOD_VALUE == 1
DEATH_FOOD_MIN_COUNT == 10
DEATH_FOOD_MAX_COUNT == 50

SubPixel == 2 ^ MAX_LEVELS
SizeUnit == 10 * 10
\* CONFIG.PLAYER.BOOST_CONSUMPTION = 0.05
BOOST_CONSUMPTION == SizeUnit \div 20

(***************************************************************************)
(* Bounds of the model                                                     *)
(***************************************************************************)
MaxInserts == 12
\* Math.random() returns k / RandomGrid for some k in 0 .. RandomGrid - 1
RandomGrid == 4
\* a snake eats only while its size stays at or below MaxSize
MaxSize == 13

(***************************************************************************)
(* QuadTree (js/quadtree.js)                                               *)
(***************************************************************************)
\* new QuadTree(bounds, level)
NewQuadTree(bounds, level) ==
    [bounds |-> bounds, level |-> level, objects |-> <<>>, nodes |-> <<>>]

\* split(): nodes[0] top right, nodes[1] top left, nodes[2] bottom left,
\* nodes[3] bottom right (the sequence index is the JS index plus one)
Split(node) ==
    LET subWidth == node.bounds.width \div 2
        subHeight == node.bounds.height \div 2
        x == node.bounds.x
        y == node.bounds.y
        child(cx, cy) == NewQuadTree([x |-> cx, y |-> cy, width |-> subWidth,
                                      height |-> subHeight], node.level + 1)
    IN  [node EXCEPT !.nodes = << child(x + subWidth, y),
                                  child(x, y),
                                  child(x, y + subHeight),
                                  child(x + subWidth, y + subHeight) >>]

\* getIndex with the quadrant chosen by the left/top edge alone
GetIndex_EdgeOnly(bounds, rect) ==
    LET verticalMidpoint == bounds.x + (bounds.width \div 2)
        horizontalMidpoint == bounds.y + (bounds.height \div 2)
        topQuadrant == rect.y < horizontalMidpoint
        bottomQuadrant == rect.y > horizontalMidpoint
    IN  IF rect.x < verticalMidpoint
        THEN (IF topQuadrant THEN 1 ELSE IF bottomQuadrant THEN 2 ELSE -1)
        ELSE IF rect.x > verticalMidpoint
        THEN (IF topQuadrant THEN 0 ELSE IF bottomQuadrant THEN 3 ELSE -1)
        ELSE -1

\* getIndex(rect): 0..3, or -1 when rect fits in no single quadrant
GetIndex(bounds, rect) ==
    LET verticalMidpoint == bounds.x + (bounds.width \div 2)
        horizontalMidpoint == bounds.y + (bounds.height \div 2)
        topQuadrant == rect.y < horizontalMidpoint
                       /\ rect.y + rect.height < horizontalMidpoint
        bottomQuadrant == rect.y > horizontalMidpoint
    IN  IF rect.x < verticalMidpoint /\ rect.x + rect.width < verticalMidpoint
        THEN (IF topQuadrant THEN 1 ELSE IF bottomQuadrant THEN 2 ELSE -1)
        ELSE IF rect.x > verticalMidpoint
        THEN (IF topQuadrant THEN 0 ELSE IF bottomQuadrant THEN 3 ELSE -1)
        ELSE -1

\* Array.prototype.splice(i, 1) on a sequence (i is the 1-based position)
RemoveAt(s, i) == SubSeq(s, 1, i - 1) \o SubSeq(s, i + 1, Len(s))

RECURSIVE Insert(_, _)
RECURSIVE Redistribute(_, _)

\* the while loop of insert(), with the object left in this node as well
Redistribute_KeepsCopy(node, i) ==
    IF i > Len(node.objects) THEN node
    ELSE LET index == GetIndex(node.bounds, node.objects[i])
         IN  IF index # -1
             THEN Redistribute(
                    [node EXCEPT !.nodes[index + 1] = Insert(@, node.objects[i])],
                    i + 1)
             ELSE Redistribute(node, i + 1)

\* the while loop of insert(): moves every object that fits a quadrant down
Redistribute(node, i) ==
    IF i > Len(node.objects) THEN node
    ELSE LET index == GetIndex(node.bounds, node.objects[i])
         IN  IF index # -1
             THEN Redistribute(
                    [node EXCEPT !.objects = RemoveAt(@, i),
                                 !.nodes[index + 1] = Insert(@, node.objects[i])],
                    i)
             ELSE Redistribute(node, i + 1)

\* insert(obj), splitting at any level
Insert_AnyLevel(node, obj) ==
    LET index == IF Len(node.nodes) # 0 THEN GetIndex(node.bounds, obj) ELSE -1
    IN  IF Len(node.nodes) # 0 /\ index # -1
        THEN [node EXCEPT !.nodes[index + 1] = Insert(@, obj)]
        ELSE LET pushed == [node EXCEPT !.objects = Append(@, obj)]
             IN  IF Len(pushed.objects) > MAX_OBJECTS
                 THEN Redistribute(IF Len(pushed.nodes) = 0 THEN Split(pushed)
                                   ELSE pushed, 1)
                 ELSE pushed

\* insert(obj)
Insert(node, obj) ==
    LET index == IF Len(node.nodes) # 0 THEN GetIndex(node.bounds, obj) ELSE -1
    IN  IF Len(node.nodes) # 0 /\ index # -1
        THEN [node EXCEPT !.nodes[index + 1] = Insert(@, obj)]
        ELSE LET pushed == [node EXCEPT !.objects = Append(@, obj)]
             IN  IF Len(pushed.objects) > MAX_OBJECTS /\ node.level < MAX_LEVELS
                 THEN Redistribute(IF Len(pushed.nodes) = 0 THEN Split(pushed)
                                   ELSE pushed, 1)
                 ELSE pushed

RECURSIVE Retrieve(_, _)
\* retrieve(obj): the objects of the children first, then this node's own
Retrieve(node, obj) ==
    LET index == GetIndex(node.bounds, obj)
        fromNodes ==
            IF Len(node.nodes) # 0
            THEN IF index # -1
                 THEN Retrieve(node.nodes[index + 1], obj)
                 ELSE Retrieve(node.nodes[1], obj) \o Retrieve(node.nodes[2], obj)
                      \o Retrieve(node.nodes[3], obj) \o Retrieve(node.nodes[4], obj)
            ELSE <<>>
    IN  fromNodes \o node.objects

RECURSIVE GetAllObjects(_)
\* getAllObjects(): this node's objects, then those of the children
GetAllObjects(node) ==
    IF Len(node.nodes) = 0 THEN node.objects
    ELSE node.objects \o GetAllObjects(node.nodes[1]) \o GetAllObjects(node.nodes[2])
         \o GetAllObjects(node.nodes[3]) \o GetAllObjects(node.nodes[4])

\* clear(): no objects and no child nodes
\* clear() that empties this.objects and leaves this.nodes in place
Clear_KeepsNodes(node) == [node EXCEPT !.objects = <<>>]

Clear(node) == [node EXCEPT !.objects = <<>>, !.nodes = <<>>]

\* CollisionSystem.initQuadtree(CONFIG.WORLD.WIDTH, CONFIG.WORLD.HEIGHT)
InitQuadtree ==
    NewQuadTree([x |-> 0, y |-> 0, width |-> WORLD_WIDTH * SubPixel,
                 height |-> WORLD_HEIGHT * SubPixel], 0)

\* Entity.getBounds() of a circle of centre (x, y) and the given radius (px)
GetBounds(x, y, radius) ==
    [x |-> (x - radius) * SubPixel, y |-> (y - radius) * SubPixel,
     width |-> radius * 2 * SubPixel, height |-> radius * 2 * SubPixel]

(***************************************************************************)
(* Math.random() and Utils (js/ui.js)                                      *)
(***************************************************************************)
Max(a, b) == IF a >= b THEN a ELSE b
Min(a, b) == IF a <= b THEN a ELSE b

\* the outcomes of one Math.random() call, as numerators over RandomGrid
MathRandom == 0 .. (RandomGrid - 1)

\* Math.random() < p / q, for the outcome k / RandomGrid
RandomBelow(k, p, q) == k * q < p * RandomGrid

\* Utils.randomInt(min, max) = Math.floor(Math.random() * (max + 1 - min) + min)
\* with min and max in units of 1/SizeUnit, for the outcome k / RandomGrid
RandomInt(k, min, max) ==
    (k * (max + SizeUnit - min) + min * RandomGrid) \div (SizeUnit * RandomGrid)

(***************************************************************************)
(* Snake, Player, NPC (js/snake.js, js/npc.js); sizes in 1/SizeUnit.       *)
(* The record holds what update(), eatFood() and die() decide on: the      *)
(* positions and radii of the segments are left out (segments is           *)
(* segments.length), and so are score and maxScore, which update() copies  *)
(* from size and nothing here reads.                                       *)
(***************************************************************************)
\* Math.max(5, Math.floor(size / 2))
SegmentCount(size) == Max(5, size \div (2 * SizeUnit))

\* new Snake(...), then the type set by the Player or NPC constructor
NewSnake(type, size) ==
    [type |-> type, size |-> size, boosting |-> FALSE,
     segments |-> SegmentCount(size), markedForDeletion |-> FALSE,
     killedNPCs |-> 0]

\* updateSegments(): push while too few, pop while too many
UpdateSegments(s) == [s EXCEPT !.segments = SegmentCount(s.size)]

\* Snake.update() without the motion of the segments; drop is the outcome of
\* Math.random() < 0.1, drawn only when the snake pays for its boost
SnakeUpdate(s, drop) ==
    LET paying == s.boosting /\ s.size > MIN_SEGMENTS_FOR_BOOST * SizeUnit
        paid == IF paying THEN [s EXCEPT !.size = @ - BOOST_CONSUMPTION] ELSE s
    IN  IF paying /\ drop
        THEN [snake |-> paid, ret |-> "deathFood"]
        ELSE [snake |-> UpdateSegments(paid), ret |-> "null"]

\* eatFood(food)
EatFood(s, value) == [s EXCEPT !.size = @ + value * SizeUnit]

\* handleBoosting() that starts a boost whenever the size allows one
HandleBoosting_Starts(s, stop) ==
    LET large == [s EXCEPT !.boosting = s.size > MIN_SEGMENTS_FOR_BOOST * SizeUnit]
    IN  IF large.boosting /\ stop THEN [large EXCEPT !.boosting = FALSE] ELSE large

\* NPC.handleBoosting(); stop is the outcome of Math.random() < 0.02, drawn
\* only when the NPC is still boosting
HandleBoosting(s, stop) ==
    LET small == IF s.size <= MIN_SEGMENTS_FOR_BOOST * SizeUnit
                 THEN [s EXCEPT !.boosting = FALSE] ELSE s
    IN  IF small.boosting /\ stop THEN [small EXCEPT !.boosting = FALSE] ELSE small

\* the number of DeathFood items die() creates, for the outcome k / RandomGrid
\* of the Math.random() call inside Utils.randomInt
DieFoodCount(s, k) ==
    RandomInt(k, DEATH_FOOD_MIN_COUNT * SizeUnit,
              Min(DEATH_FOOD_MAX_COUNT * SizeUnit, s.size))

\* die(): the items are created, then destroy() flags the snake
Die(s, k) ==
    [snake |-> [s EXCEPT !.markedForDeletion = TRUE],
     foodItems |-> Max(0, DieFoodCount(s, k))]

(***************************************************************************)
(* One snake on its own: the listeners and methods that change its size,   *)
(* its boost flag and its segment count.                                   *)
(***************************************************************************)
\* no collision pass is in progress
CollIdle ==
    /\ centities = <<>> /\ cbefore = <<>> /\ cdeaths = <<>> /\ cnew = <<>>
    /\ cphase = "idle"

NoSnake == NewSnake("none", 0)

\* new GameState(); player null is NoSnake
NewGameState ==
    [entities |-> <<>>, player |-> NoSnake, difficulty |-> "normal",
     isRunning |-> FALSE, frameCount |-> 0, spawnCounter |-> 0]

\* what glast holds: the handler, and for an update() the number of flagged
\* entities it removed, the NPCs it counted and spawned in maintainNPCCount()
\* and whether it dispatched game:over, with the number of NPCs in the
\* collection at the dispatch (-1 when there was none)
Last(op, removed, counted, spawned, over, overNpcs) ==
    [op |-> op, removed |-> removed, npcCount |-> counted,
     spawned |-> spawned, gameOver |-> over, overNpcs |-> overNpcs]

\* no game is constructed
GameIdle == game = NewGameState /\ glast = Last("none", 0, 0, 0, FALSE, -1)
SnakeIdle == snake = NoSnake /\ sop = "none" /\ sret = 0

\* no function has been called on its own, and no NPC is on its own
UtilsIdle == call = [op |-> "none"] /\ ret = 0
NpcIdle == npc = [type |-> "none"] /\ nlast = [op |-> "none"]

\* the sizes NPCs are created with (Utils.random over INITIAL_SIZE, a real)
NpcInitSizes == { 5 * SizeUnit, 10 * SizeUnit + 3, 12 * SizeUnit }

SInit ==
    /\ snake \in { NewSnake("player", PLAYER_INITIAL_SIZE * SizeUnit) }
                 \cup { NewSnake("npc", z) : z \in NpcInitSizes }
    /\ sop = "new"
    /\ sret = 0
    /\ qtree = InitQuadtree /\ inserted = <<>> /\ qpalette = {}
    /\ CollIdle
    /\ GameIdle
    /\ UtilsIdle
    /\ NpcIdle

\* Player.update(): steering, then Snake.update()
PlayerUpdate ==
    /\ snake.type = "player" /\ ~snake.markedForDeletion
    /\ \E drop \in { RandomBelow(k, 1, 10) : k \in MathRandom } :
         LET r == SnakeUpdate(snake, drop)
         IN  snake' = r.snake /\ sret' = r.ret
    /\ sop' = "update"
    /\ UNCHANGED <<qvars, cvars, gvars, uvars, nvars>>

\* the mousedown listener of the player
PlayerMouseDown ==
    /\ snake.type = "player" /\ ~snake.markedForDeletion
    /\ snake' = IF snake.size > MIN_SEGMENTS_FOR_BOOST * SizeUnit
                THEN [snake EXCEPT !.boosting = TRUE] ELSE snake
    /\ sop' = "mousedown" /\ sret' = 0
    /\ UNCHANGED <<qvars, cvars, gvars, uvars, nvars>>

\* the mouseup listener of the player
PlayerMouseUp ==
    /\ snake.type = "player" /\ ~snake.markedForDeletion
    /\ snake' = [snake EXCEPT !.boosting = FALSE]
    /\ sop' = "mouseup" /\ sret' = 0
    /\ UNCHANGED <<qvars, cvars, gvars, uvars, nvars>>

\* NPC.update(): the decision and steering code assigns boosting only in
\* the 'flee' branch of makeDecision() and in the 'attack' and 'flee' cases
\* of updateTargetAngle(), which an NPC never takes (see MakeDecision), so
\* it leaves the flag of the constructor; then handleBoosting() and
\* Snake.update()
NpcUpdate ==
    /\ snake.type = "npc" /\ ~snake.markedForDeletion
    /\ \E stop \in { RandomBelow(k, 2, 100) : k \in MathRandom } :
       \E drop \in { RandomBelow(k, 1, 10) : k \in MathRandom } :
         LET handled == HandleBoosting(snake, stop)
             r == SnakeUpdate(handled, drop)
         IN  snake' = r.snake /\ sret' = r.ret
    /\ sop' = "update"
    /\ UNCHANGED <<qvars, cvars, gvars, uvars, nvars>>

\* the collision pass feeds the snake one Food or DeathFood
SnakeEat ==
    /\ snake.type # "none" /\ ~snake.markedForDeletion
    /\ snake.size + FOOD_VALUE * SizeUnit <= MaxSize * SizeUnit
    /\ snake' = EatFood(snake, FOOD_VALUE)
    /\ sop' = "eatFood" /\ sret' = 0
    /\ UNCHANGED <<qvars, cvars, gvars, uvars, nvars>>

\* the collision pass kills the snake
SnakeDie ==
    /\ snake.type # "none" /\ ~snake.markedForDeletion
    /\ \E k \in MathRandom :
         LET r == Die(snake, k)
         IN  snake' = r.snake /\ sret' = r.foodItems
    /\ sop' = "die"
    /\ UNCHANGED <<qvars, cvars, gvars, uvars, nvars>>

SNext == PlayerUpdate \/ PlayerMouseDown \/ PlayerMouseUp \/ NpcUpdate
         \/ SnakeEat \/ SnakeDie

SpecSnake == SInit /\ [][SNext]_vars

(* C2: at the end of every update() the segment count of the snake is      *)
(* max(5, floor(size/2)), the updates that drop a DeathFood included.      *)
C2_SegmentCount ==
    sop = "update" => snake.segments = Max(5, snake.size \div (2 * SizeUnit))

(* C3: die() on a snake of size S returns n DeathFood items with           *)
(* MIN_COUNT <= n <= min(MAX_COUNT, S), and the snake is flagged.          *)
C3_DeathCount ==
    sop = "die" =>
        /\ DEATH_FOOD_MIN_COUNT <= sret
        /\ sret * SizeUnit <= Min(DEATH_FOOD_MAX_COUNT * SizeUnit, snake.size)
        /\ snake.markedForDeletion

(* C11: an update() of a snake (Player or NPC) that starts with boosting   *)
(* set and size <= MIN_SEGMENTS_FOR_BOOST ends with boosting false and the *)
(* size unchanged.                                                         *)
C11_BoostCleared ==
    [][ ( /\ sop' = "update"
          /\ snake.boosting
          /\ snake.size <= MIN_SEGMENTS_FOR_BOOST * SizeUnit )
        => (~snake'.boosting /\ snake'.size = snake.size) ]_vars


(***************************************************************************)
(* The collision pass (js/collision.js) over placed entities.  Positions   *)
(* are whole px; a radius is the exact fraction num/den.                   *)
(***************************************************************************)
SEGMENT_RADIUS == 10
SEGMENT_SPACING == 5
FOOD_SIZE == 5

\* Utils.circleCollision with distance <= r1 + r2
CircleCollision_Touching(c1, c2) ==
    LET dx == c2.x - c1.x
        dy == c2.y - c1.y
        n == c1.radius.num * c2.radius.den + c2.radius.num * c1.radius.den
        d == c1.radius.den * c2.radius.den
    IN  (dx * dx + dy * dy) * d * d <= n * n

\* Utils.circleCollision: distance < r1 + r2, compared as squares
CircleCollision(c1, c2) ==
    LET dx == c2.x - c1.x
        dy == c2.y - c1.y
        n == c1.radius.num * c2.radius.den + c2.radius.num * c1.radius.den
        d == c1.radius.den * c2.radius.den
        \* the radii rounded up: circles further apart than their sum are
        \* told apart before the exact products, which stay small
        reach == (c1.radius.num + c1.radius.den - 1) \div c1.radius.den
                 + (c2.radius.num + c2.radius.den - 1) \div c2.radius.den
    IN  /\ dx * dx + dy * dy < reach * reach
        /\ (dx * dx + dy * dy) * d * d < n * n

\* initSegments(): segment i lies i * segmentSpacing behind the head, with
\* radius this.radius * (1 - i / (segmentCount * 2)); dir is the cosine of
\* the direction the body trails in (-1 for a snake just constructed)
InitSegments(x, y, size, dir) ==
    LET segmentCount == SegmentCount(size)
    IN  <<>> \o [i \in 1..segmentCount |->
            [x |-> x + dir * (i - 1) * SEGMENT_SPACING, y |-> y,
             radius |-> [num |-> SEGMENT_RADIUS * (2 * segmentCount - (i - 1)),
                         den |-> 2 * segmentCount]]]

\* a Player or an NPC with its segment chain
PlacedSnake(type, x, y, size, dir) ==
    [type |-> type, x |-> x, y |-> y,
     radius |-> [num |-> SEGMENT_RADIUS, den |-> 1], size |-> size,
     segments |-> InitSegments(x, y, size, dir),
     markedForDeletion |-> FALSE, killedNPCs |-> 0]

\* a Food or a DeathFood
PlacedFood(type, x, y) ==
    [type |-> type, x |-> x, y |-> y, radius |-> [num |-> FOOD_SIZE, den |-> 1],
     value |-> IF type = "deathFood" THEN DEATH_FOOD_VALUE ELSE FOOD_VALUE,
     markedForDeletion |-> FALSE]

\* Snake.getBounds(): the box around all segments, on the grid
SnakeGetBounds(e) ==
    LET lo(v, r) == ((v * r.den - r.num) * SubPixel) \div r.den
        hi(v, r) == ((v * r.den + r.num) * SubPixel) \div r.den
        segs == 1..Len(e.segments)
        minX == CHOOSE v \in { lo(e.segments[k].x, e.segments[k].radius) : k \in segs } :
                   \A k \in segs : v <= lo(e.segments[k].x, e.segments[k].radius)
        minY == CHOOSE v \in { lo(e.segments[k].y, e.segments[k].radius) : k \in segs } :
                   \A k \in segs : v <= lo(e.segments[k].y, e.segments[k].radius)
        maxX == CHOOSE v \in { hi(e.segments[k].x, e.segments[k].radius) : k \in segs } :
                   \A k \in segs : v >= hi(e.segments[k].x, e.segments[k].radius)
        maxY == CHOOSE v \in { hi(e.segments[k].y, e.segments[k].radius) : k \in segs } :
                   \A k \in segs : v >= hi(e.segments[k].y, e.segments[k].radius)
    IN  [x |-> minX, y |-> minY, width |-> maxX - minX, height |-> maxY - minY]

\* entity.getBounds(): a new object with x, y, width and height only
EntityGetBounds(e) ==
    IF e.type \in {"player", "npc", "snake"} THEN SnakeGetBounds(e)
    ELSE GetBounds(e.x, e.y, e.radius.num \div e.radius.den)

RECURSIVE InsertAll(_, _, _)
\* updateQuadtree(entities): for (const entity of entities)
\*     this.quadtree.insert(entity.getBounds())
InsertAll(tree, entities, i) ==
    IF i > Len(entities) THEN tree
    ELSE InsertAll(Insert(tree, EntityGetBounds(entities[i])), entities, i + 1)

\* updateQuadtree(entities)
UpdateQuadtree(tree, entities) == InsertAll(Clear(tree), entities, 1)

IsFoodType(e) == e.type = "food" \/ e.type = "deathFood"
IsSnakeType(e) == e.type = "snake" \/ e.type = "npc"

\* a.isCollidingWithSnake(b): a's head against the non-head segments of b
IsCollidingWithSnake(ents, a, b) ==
    /\ a # b
    /\ \E k \in 2..Len(ents[b].segments) :
         CircleCollision(ents[a].segments[1], ents[b].segments[k])

\* a.isHeadCollidingWithHead(b)
IsHeadCollidingWithHead(ents, a, b) ==
    /\ a # b
    /\ CircleCollision(ents[a].segments[1], ents[b].segments[1])

\* who.die() with the DeathFood pushed to the entities of the pass
DieIn_PushesLive(st, who, cause, other) ==
    [st EXCEPT !.ents = Append([@ EXCEPT ![who].markedForDeletion = TRUE],
                               PlacedFood("deathFood", st.ents[who].x,
                                          st.ents[who].y)),
               !.deaths = Append(@, [who |-> who, size |-> st.ents[who].size,
                                     cause |-> cause, other |-> other])]

\* who.die() inside the pass: destroy() flags the snake; the call is logged
\* with the snake's size at the call, the check that made it and the other
\* snake of that check
DieIn(st, who, cause, other) ==
    [st EXCEPT !.ents[who].markedForDeletion = TRUE,
               !.deaths = Append(@, [who |-> who, size |-> st.ents[who].size,
                                     cause |-> cause, other |-> other])]

\* player.killedNPCs++
CreditKill(st, p) == [st EXCEPT !.ents[p].killedNPCs = @ + 1]

\* snake.eatFood(entity) without entity.destroy()
EatIn_FoodStays(st, who, i) ==
    [st EXCEPT !.ents[who].size = @ + st.ents[i].value * SizeUnit]

\* snake.eatFood(entity); entity.destroy()
EatIn(st, who, i) ==
    [st EXCEPT !.ents[who].size = @ + st.ents[i].value * SizeUnit,
               !.ents[i].markedForDeletion = TRUE]

RECURSIVE PlayerFoodLoop(_, _, _)
\* checkPlayerFoodCollisions: the loop over entities (the quadtree result
\* potentialCollisions is never read)
PlayerFoodLoop(st, p, i) ==
    IF i > Len(st.ents) THEN st
    ELSE IF ~IsFoodType(st.ents[i]) \/ st.ents[i].markedForDeletion
         THEN PlayerFoodLoop(st, p, i + 1)
         ELSE IF CircleCollision(st.ents[p].segments[1], st.ents[i])
              THEN PlayerFoodLoop(EatIn(st, p, i), p, i + 1)
              ELSE PlayerFoodLoop(st, p, i + 1)

\* checkPlayerFoodCollisions over the food that potentialCollisions holds
CheckPlayerFoodCollisions_BroadPhase(st, p, quadtree) ==
    LET potentialCollisions == Retrieve(quadtree, EntityGetBounds(st.ents[p]))
        hidden == { i \in 1..Len(st.ents) :
                      /\ IsFoodType(st.ents[i])
                      /\ \A k \in 1..Len(potentialCollisions) :
                            potentialCollisions[k] # EntityGetBounds(st.ents[i]) }
        scanned == PlayerFoodLoop(
                       [st EXCEPT !.ents =
                           [i \in 1..Len(st.ents) |->
                               IF i \in hidden
                               THEN [st.ents[i] EXCEPT !.markedForDeletion = TRUE]
                               ELSE st.ents[i]]], p, 1)
    IN  [scanned EXCEPT !.ents =
            [i \in 1..Len(st.ents) |->
                IF i \in hidden THEN st.ents[i] ELSE scanned.ents[i]]]

\* checkPlayerFoodCollisions(player, entities, newEntities):
\* potentialCollisions is retrieved and not read again
CheckPlayerFoodCollisions(st, p, quadtree) ==
    LET potentialCollisions == Retrieve(quadtree, EntityGetBounds(st.ents[p]))
    IN  PlayerFoodLoop(st, p, 1)

RECURSIVE PlayerSnakeLoop_LargerLoses(_, _, _)
\* the loop with the head-to-head comparison turned round
PlayerSnakeLoop_LargerLoses(st, p, i) ==
    IF i > Len(st.ents) THEN st
    ELSE IF ~IsSnakeType(st.ents[i]) \/ i = p \/ st.ents[i].markedForDeletion
         THEN PlayerSnakeLoop_LargerLoses(st, p, i + 1)
         ELSE IF IsCollidingWithSnake(st.ents, p, i)
              THEN DieIn(st, p, "body", i)
              ELSE LET struck == IF IsCollidingWithSnake(st.ents, i, p)
                                 THEN CreditKill(DieIn(st, i, "body", p), p)
                                 ELSE st
                   IN  IF IsHeadCollidingWithHead(struck.ents, p, i)
                       THEN IF struck.ents[p].size > struck.ents[i].size
                            THEN DieIn(struck, p, "head", i)
                            ELSE PlayerSnakeLoop_LargerLoses(
                                   CreditKill(DieIn(struck, i, "head", p), p),
                                   p, i + 1)
                       ELSE PlayerSnakeLoop_LargerLoses(struck, p, i + 1)

RECURSIVE PlayerSnakeLoop(_, _, _)
\* checkPlayerSnakeCollisions: the loop over entities; a return leaves it
PlayerSnakeLoop(st, p, i) ==
    IF i > Len(st.ents) THEN st
    ELSE IF ~IsSnakeType(st.ents[i]) \/ i = p \/ st.ents[i].markedForDeletion
         THEN PlayerSnakeLoop(st, p, i + 1)
         ELSE IF IsCollidingWithSnake(st.ents, p, i)
              THEN DieIn(st, p, "body", i)
              ELSE LET struck == IF IsCollidingWithSnake(st.ents, i, p)
                                 THEN CreditKill(DieIn(st, i, "body", p), p)
                                 ELSE st
                   IN  IF IsHeadCollidingWithHead(struck.ents, p, i)
                       THEN IF struck.ents[p].size < struck.ents[i].size
                            THEN DieIn(struck, p, "head", i)
                            ELSE PlayerSnakeLoop(
                                   CreditKill(DieIn(struck, i, "head", p), p),
                                   p, i + 1)
                       ELSE PlayerSnakeLoop(struck, p, i + 1)

\* checkPlayerSnakeCollisions
CheckPlayerSnakeCollisions(st, p) ==
    IF st.ents[p].markedForDeletion THEN st ELSE PlayerSnakeLoop(st, p, 1)

RECURSIVE NpcIndices(_, _)
\* entities.filter(e => (e.type === 'npc' || e.type === 'snake') &&
\* e.type !== 'player' && !e.markedForDeletion), as indices from i on
NpcIndices(ents, i) ==
    IF i > Len(ents) THEN <<>>
    ELSE (IF (ents[i].type = "npc" \/ ents[i].type = "snake")
             /\ ents[i].type # "player" /\ ~ents[i].markedForDeletion
          THEN <<i>> ELSE <<>>) \o NpcIndices(ents, i + 1)

RECURSIVE NpcFoodLoop_EatsFlagged(_, _, _, _)
\* checkNPCCollisions: the loop over entities without the test of
\* entity.markedForDeletion
NpcFoodLoop_EatsFlagged(st, npcs, n, i) ==
    IF n > Len(npcs) THEN st
    ELSE IF i > Len(st.ents) THEN NpcFoodLoop_EatsFlagged(st, npcs, n + 1, 1)
    ELSE IF ~IsFoodType(st.ents[i])
         THEN NpcFoodLoop_EatsFlagged(st, npcs, n, i + 1)
         ELSE IF CircleCollision(st.ents[npcs[n]].segments[1], st.ents[i])
              THEN NpcFoodLoop_EatsFlagged(EatIn(st, npcs[n], i), npcs, n, i + 1)
              ELSE NpcFoodLoop_EatsFlagged(st, npcs, n, i + 1)

RECURSIVE NpcFoodLoop(_, _, _, _)
\* checkNPCCollisions: for each npc, the loop over entities
NpcFoodLoop(st, npcs, n, i) ==
    IF n > Len(npcs) THEN st
    ELSE IF i > Len(st.ents) THEN NpcFoodLoop(st, npcs, n + 1, 1)
    ELSE IF ~IsFoodType(st.ents[i]) \/ st.ents[i].markedForDeletion
         THEN NpcFoodLoop(st, npcs, n, i + 1)
         ELSE IF CircleCollision(st.ents[npcs[n]].segments[1], st.ents[i])
              THEN NpcFoodLoop(EatIn(st, npcs[n], i), npcs, n, i + 1)
              ELSE NpcFoodLoop(st, npcs, n, i + 1)

RECURSIVE NpcInnerLoop_StruckDies(_, _, _, _)
\* the loop with a body strike killing the snake that was struck
NpcInnerLoop_StruckDies(st, npcs, i, j) ==
    IF j > Len(npcs) THEN st
    ELSE LET npc1 == npcs[i]
             npc2 == npcs[j]
         IN  IF st.ents[npc2].markedForDeletion
             THEN NpcInnerLoop_StruckDies(st, npcs, i, j + 1)
             ELSE IF IsCollidingWithSnake(st.ents, npc1, npc2)
             THEN NpcInnerLoop_StruckDies(DieIn(st, npc2, "body", npc1),
                                          npcs, i, j + 1)
             ELSE IF IsCollidingWithSnake(st.ents, npc2, npc1)
             THEN DieIn(st, npc1, "body", npc2)
             ELSE IF IsHeadCollidingWithHead(st.ents, npc1, npc2)
             THEN IF st.ents[npc1].size < st.ents[npc2].size
                  THEN DieIn(st, npc1, "head", npc2)
                  ELSE IF st.ents[npc2].size < st.ents[npc1].size
                  THEN NpcInnerLoop_StruckDies(DieIn(st, npc2, "head", npc1),
                                               npcs, i, j + 1)
                  ELSE DieIn(DieIn(st, npc1, "head", npc2), npc2, "head", npc1)
             ELSE NpcInnerLoop_StruckDies(st, npcs, i, j + 1)

RECURSIVE NpcInnerLoop(_, _, _, _)
\* checkNPCCollisions: the loop over npc2 for one npc1; break leaves it
NpcInnerLoop(st, npcs, i, j) ==
    IF j > Len(npcs) THEN st
    ELSE LET npc1 == npcs[i]
             npc2 == npcs[j]
         IN  IF st.ents[npc2].markedForDeletion
             THEN NpcInnerLoop(st, npcs, i, j + 1)
             ELSE IF IsCollidingWithSnake(st.ents, npc1, npc2)
             THEN DieIn(st, npc1, "body", npc2)
             ELSE IF IsCollidingWithSnake(st.ents, npc2, npc1)
             THEN NpcInnerLoop(DieIn(st, npc2, "body", npc1), npcs, i, j + 1)
             ELSE IF IsHeadCollidingWithHead(st.ents, npc1, npc2)
             THEN IF st.ents[npc1].size < st.ents[npc2].size
                  THEN DieIn(st, npc1, "head", npc2)
                  ELSE IF st.ents[npc2].size < st.ents[npc1].size
                  THEN NpcInnerLoop(DieIn(st, npc2, "head", npc1), npcs, i, j + 1)
                  ELSE DieIn(DieIn(st, npc1, "head", npc2), npc2, "head", npc1)
             ELSE NpcInnerLoop(st, npcs, i, j + 1)

RECURSIVE NpcOuterLoop(_, _, _)
\* checkNPCCollisions: the loop over npc1
NpcOuterLoop(st, npcs, i) ==
    IF i > Len(npcs) THEN st
    ELSE IF st.ents[npcs[i]].markedForDeletion
         THEN NpcOuterLoop(st, npcs, i + 1)
         ELSE NpcOuterLoop(NpcInnerLoop(st, npcs, i, i + 1), npcs, i + 1)

\* checkNPCCollisions
CheckNPCCollisions(st) ==
    LET npcs == NpcIndices(st.ents, 1)
    IN  NpcOuterLoop(NpcFoodLoop(st, npcs, 1, 1), npcs, 1)

\* checkCollisions(entities, player) up to the random sizes of the batches:
\* the entities after the pass and the die() calls it made
CheckCollisions(ents, p, quadtree) ==
    CheckNPCCollisions(
        CheckPlayerSnakeCollisions(
            CheckPlayerFoodCollisions([ents |-> ents, deaths |-> <<>>], p,
                                      quadtree), p))

RECURSIVE FoodItems(_, _, _)
\* newEntities: for each die() call, in order, the DeathFood items it
\* returned; rolls[i] is the Math.random() outcome of the i-th call.  The
\* random position of an item is left out.
FoodItems(deaths, rolls, i) ==
    IF i > Len(deaths) THEN <<>>
    ELSE LET n == Max(0, RandomInt(rolls[i], DEATH_FOOD_MIN_COUNT * SizeUnit,
                                   Min(DEATH_FOOD_MAX_COUNT * SizeUnit,
                                       deaths[i].size)))
         IN  [k \in 1..n |-> [type |-> "deathFood", value |-> DEATH_FOOD_VALUE,
                              from |-> deaths[i].who,
                              markedForDeletion |-> FALSE]]
             \o FoodItems(deaths, rolls, i + 1)


(***************************************************************************)
(* One collision pass over a placed world: the player, two NPCs, a Food    *)
(* and a DeathFood, in the order GameState.init pushes them.               *)
(***************************************************************************)
\* where the head of an NPC may be, relative to the player's head at 100:
\* on the player's tail, on its body from behind, just ahead of it, a head's
\* reach ahead, with only its tail in reach, and far away
NpcXs == { 66, 85, 110, 119, 134, 250 }
NpcSizes == { 8 * SizeUnit, 10 * SizeUnit, 12 * SizeUnit + 50 }
FoodXs == { 105, 255, 400 }

CPlacements ==
    { << PlacedSnake("player", 100, 100, PLAYER_INITIAL_SIZE * SizeUnit, -1),
         PlacedSnake("npc", x1, 100, z1, d1),
         PlacedSnake("npc", x2, 100, z2, d2),
         PlacedFood("food", f1, 100),
         PlacedFood("deathFood", f2, 100) >> :
      x1 \in NpcXs, z1 \in NpcSizes, d1 \in {-1, 1},
      x2 \in NpcXs, z2 \in NpcSizes, d2 \in {-1, 1},
      f1 \in FoodXs, f2 \in FoodXs }

CInit ==
    /\ centities \in CPlacements
    /\ cbefore = centities
    /\ cdeaths = <<>>
    /\ cnew = <<>>
    /\ cphase = "placed"
    \* the quadtree of the tick: built from all the entities, or before
    \* the DeathFood was dropped
    /\ qtree \in { UpdateQuadtree(InitQuadtree, centities),
                   UpdateQuadtree(InitQuadtree, SubSeq(centities, 1, 4)) }
    /\ inserted = <<>> /\ qpalette = {}
    /\ SnakeIdle
    /\ GameIdle
    /\ UtilsIdle
    /\ NpcIdle

\* collisionSystem.checkCollisions(this.entities, this.player); the player
\* is the first entity
CollisionPass ==
    /\ cphase = "placed"
    /\ LET r == CheckCollisions(centities, 1, qtree)
       IN  /\ centities' = r.ents
           /\ cdeaths' = r.deaths
           /\ \E rolls \in [1..Len(r.deaths) -> MathRandom] :
                cnew' = FoodItems(r.deaths, rolls, 1)
    /\ cphase' = "resolved"
    /\ UNCHANGED <<cbefore, qvars, svars, gvars, uvars, nvars>>

CNext == CollisionPass

SpecColl == CInit /\ [][CNext]_vars

\* the snakes, and the NPCs, of the pass
CSnakes == { i \in 1..Len(cbefore) : cbefore[i].type \in {"player", "npc"} }
CNpcs == { i \in 1..Len(cbefore) : cbefore[i].type = "npc" }

\* a's head overlaps a non-head segment of b; the heads of a and b overlap
Strikes(a, b) == IsCollidingWithSnake(cbefore, a, b)
HeadsOverlap(a, b) == IsHeadCollidingWithHead(cbefore, a, b)

\* a died in the pass in a check against b
KilledBy(a, b) ==
    \E i \in 1..Len(cdeaths) : cdeaths[i].who = a /\ cdeaths[i].other = b

\* a or b died in a check against a third snake
ThirdParty(a, b) ==
    \E i \in 1..Len(cdeaths) :
        cdeaths[i].who \in {a, b} /\ cdeaths[i].other \notin {a, b}

\* the size of a when the pass compares it with b: the player has eaten by
\* then, an NPC has eaten only when it meets another NPC
SizeAtCheck(a, b) ==
    IF cbefore[a].type = "npc" /\ cbefore[b].type = "player"
    THEN cbefore[a].size ELSE centities[a].size

(* C4: two snakes of identical size whose heads overlap are both flagged   *)
(* destroyed after the pass, player-vs-NPC and NPC-vs-NPC alike.           *)
C4_TieKillsBoth ==
    cphase = "resolved" =>
        \A a \in CSnakes : \A b \in CSnakes :
            ( /\ a # b
              /\ HeadsOverlap(a, b)
              /\ SizeAtCheck(a, b) = SizeAtCheck(b, a)
              /\ ~ThirdParty(a, b) )
            => centities[a].markedForDeletion /\ centities[b].markedForDeletion

(* C5 as claimed: when the heads of two live snakes of different sizes     *)
(* overlap, the smaller is flagged destroyed and the larger is not         *)
(* destroyed by that encounter.                                            *)
C5_SmallerDies ==
    cphase = "resolved" =>
        \A a \in CSnakes : \A b \in CSnakes :
            ( /\ a # b
              /\ HeadsOverlap(a, b)
              /\ SizeAtCheck(a, b) < SizeAtCheck(b, a)
              /\ ~ThirdParty(a, b) )
            => centities[a].markedForDeletion /\ ~KilledBy(b, a)

(* C5 amended: when the heads of two live snakes of different sizes        *)
(* overlap and neither head overlaps a non-head segment of the other, the  *)
(* smaller is flagged destroyed and the larger is not destroyed by that    *)
(* encounter.                                                              *)
C5_SmallerDiesHeadOnly ==
    cphase = "resolved" =>
        \A a \in CSnakes : \A b \in CSnakes :
            ( /\ a # b
              /\ HeadsOverlap(a, b)
              /\ ~Strikes(a, b) /\ ~Strikes(b, a)
              /\ SizeAtCheck(a, b) < SizeAtCheck(b, a)
              /\ ~ThirdParty(a, b) )
            => centities[a].markedForDeletion /\ ~KilledBy(b, a)

\* a smaller NPC lost a pure head-to-head against the player, and a smaller
\* NPC one against a larger NPC that lives on
C5_Witness ==
    /\ cphase = "resolved"
    /\ \E a \in CNpcs : \E b \in CSnakes :
         /\ a # b
         /\ HeadsOverlap(a, b) /\ ~Strikes(a, b) /\ ~Strikes(b, a)
         /\ SizeAtCheck(a, b) < SizeAtCheck(b, a)
         /\ ~ThirdParty(a, b)
         /\ KilledBy(a, b)
         /\ ~centities[b].markedForDeletion

(* C6 as claimed: in the NPC-vs-NPC pass, when the head of A overlaps a    *)
(* non-head segment of a live B, the snake flagged destroyed is B, not A.  *)
C6_StruckDies ==
    cphase = "resolved" =>
        \A a \in CNpcs : \A b \in CNpcs :
            ( /\ a # b
              /\ Strikes(a, b)
              /\ ~ThirdParty(a, b) )
            => centities[b].markedForDeletion /\ ~centities[a].markedForDeletion

(* C6 amended: in the NPC-vs-NPC pass, when the head of A overlaps a       *)
(* non-head segment of a live B and B's head overlaps no non-head segment  *)
(* of A, the snake flagged destroyed is A (the striker), and B is not      *)
(* destroyed by that encounter.                                            *)
C6_StrikerDies ==
    cphase = "resolved" =>
        \A a \in CNpcs : \A b \in CNpcs :
            ( /\ a # b
              /\ Strikes(a, b) /\ ~Strikes(b, a)
              /\ ~ThirdParty(a, b) )
            => centities[a].markedForDeletion /\ KilledBy(a, b) /\ ~KilledBy(b, a)

\* an NPC later in the list ran its head into the body of an earlier one,
\* died of it, and the one it struck lives on
C6_Witness ==
    /\ cphase = "resolved"
    /\ \E a \in CNpcs : \E b \in CNpcs :
         /\ b < a
         /\ Strikes(a, b) /\ ~Strikes(b, a) /\ ~HeadsOverlap(a, b)
         /\ KilledBy(a, b)
         /\ ~centities[b].markedForDeletion

(* C7: if the player's head overlaps a non-head segment of an NPC, the     *)
(* player is flagged destroyed and the pass makes no later check that      *)
(* involves the player; if an NPC's head overlaps a non-head segment of    *)
(* the player while the player's head overlaps no non-head segment of any  *)
(* NPC and the head of no other NPC, that NPC is flagged destroyed and the *)
(* player is not.                                                          *)
C7_PlayerStrike ==
    cphase = "resolved" =>
        /\ (\E n \in CNpcs : Strikes(1, n)) =>
              /\ centities[1].markedForDeletion
              /\ \A i \in 1..Len(cdeaths) : \A j \in 1..Len(cdeaths) :
                    (cdeaths[i].who = 1 /\ j > i) =>
                        (cdeaths[j].who # 1 /\ cdeaths[j].other # 1)
        /\ \A n \in CNpcs :
              ( /\ Strikes(n, 1)
                /\ \A m \in CNpcs : ~Strikes(1, m)
                /\ \A m \in CNpcs \ {n} : ~HeadsOverlap(1, m) )
              => (centities[n].markedForDeletion /\ ~centities[1].markedForDeletion)

(* C8: the player's killedNPCs counter equals the number of distinct NPCs  *)
(* destroyed in a check against the player, each counted once.             *)
C8_KillCount ==
    cphase = "resolved" =>
        centities[1].killedNPCs = Cardinality({ n \in CNpcs : KilledBy(n, 1) })

\* the Food and DeathFood of the pass; the snakes whose heads the pass tests
\* against food: the player, and the NPCs not flagged when
\* checkNPCCollisions filters; the food s is the first to be tested
\* against with its head on it
CFoods == { i \in 1..Len(cbefore) : IsFoodType(cbefore[i]) }
CEaters == {1} \cup { n \in CNpcs : ~KilledBy(n, 1) }
HeadOnFood(s, f) == CircleCollision(cbefore[s].segments[1], cbefore[f])
EatenBy(s) ==
    { f \in CFoods : /\ s \in CEaters
                      /\ HeadOnFood(s, f)
                      /\ \A t \in CEaters : t < s => ~HeadOnFood(t, f) }

(* C12: in a collision pass, a Food or DeathFood that is not flagged when  *)
(* the head of a live snake (player or NPC) is tested against it and       *)
(* overlaps it is flagged destroyed, and that snake's size grows by        *)
(* exactly food.value for each food it is the one to eat.                  *)
C12_Feeding ==
    cphase = "resolved" =>
        /\ \A f \in CFoods :
              centities[f].markedForDeletion
                 <=> (\E s \in CEaters : HeadOnFood(s, f))
        /\ \A s \in CSnakes :
              centities[s].size =
                 cbefore[s].size + Cardinality(EatenBy(s)) * FOOD_VALUE * SizeUnit

\* a pass in which the player ate a food an NPC's head was on too, and an
\* NPC ate the other one
C12_Witness ==
    /\ cphase = "resolved"
    /\ \E f \in CFoods : \E n \in CEaters \ {1} :
          f \in EatenBy(1) /\ HeadOnFood(n, f)
    /\ \E f \in CFoods : \E n \in CEaters \ {1} : f \in EatenBy(n)


(* C26: the pass leaves the collection it scans with the same entities in *)
(* the same order, none added and none removed; the DeathFood of the       *)
(* deaths is in the returned batch only, untouched by the pass.            *)
C26_ScanUntouched ==
    cphase = "resolved" =>
        /\ Len(centities) = Len(cbefore)
        /\ \A i \in 1..Len(cbefore) :
              /\ centities[i].type = cbefore[i].type
              /\ centities[i].x = cbefore[i].x
              /\ centities[i].y = cbefore[i].y
        /\ \A k \in 1..Len(cnew) :
              /\ ~cnew[k].markedForDeletion
              /\ \E d \in 1..Len(cdeaths) : cdeaths[d].who = cnew[k].from

\* a pass with a death, whose DeathFood is in the batch
C26_Witness ==
    /\ cphase = "resolved"
    /\ Len(cdeaths) >= 1
    /\ Len(cnew) >= DEATH_FOOD_MIN_COUNT

(* C29: the flags, the sizes and the kill counter left by the pass, and    *)
(* the deaths behind the batch, are those the pass leaves with an empty    *)
(* quadtree: the scan of the collection alone decides them.                *)
C29_ScanDecides ==
    cphase = "resolved" =>
        /\ centities = CheckCollisions(cbefore, 1, InitQuadtree).ents
        /\ cdeaths = CheckCollisions(cbefore, 1, InitQuadtree).deaths

\* a pass with a quadtree that holds the entities, in which the player
\* ate and a snake died
C29_Witness ==
    /\ cphase = "resolved"
    /\ Len(GetAllObjects(qtree)) = Len(cbefore)
    /\ centities[1].size > cbefore[1].size
    /\ Len(cdeaths) >= 1

(* C33: within one pass die() is called at most once on any snake: a snake *)
(* flagged earlier in the pass is absent for every later check, so it      *)
(* leaves one batch of DeathFood and is credited as a kill at most once.   *)
C33_DiesOnce ==
    cphase = "resolved" =>
        /\ \A i \in 1..Len(cdeaths) : \A j \in 1..Len(cdeaths) :
              i # j => cdeaths[i].who # cdeaths[j].who
        /\ centities[1].killedNPCs
              <= Cardinality({ n \in CNpcs : centities[n].markedForDeletion })

RECURSIVE SizeGained(_)
\* the size the snakes from the i-th entity on gained in the pass
SizeGained(i) ==
    IF i > Len(cbefore) THEN 0
    ELSE (IF i \in CSnakes THEN centities[i].size - cbefore[i].size ELSE 0)
         + SizeGained(i + 1)

RECURSIVE ValueEaten(_)
\* the values of the food from the i-th entity on that the pass flagged
ValueEaten(i) ==
    IF i > Len(cbefore) THEN 0
    ELSE (IF /\ i \in CFoods
             /\ centities[i].markedForDeletion
             /\ ~cbefore[i].markedForDeletion
          THEN cbefore[i].value * SizeUnit ELSE 0)
         + ValueEaten(i + 1)

(* C34: a Food or DeathFood is eaten by at most one snake: no snake loses  *)
(* size in a pass and the size all snakes gained in it is the sum of the   *)
(* values of the food the pass flagged.                                    *)
C34_EatenOnce ==
    cphase = "resolved" =>
        /\ \A s \in CSnakes : centities[s].size >= cbefore[s].size
        /\ SizeGained(1) = ValueEaten(1)

\* a pass that flagged a food two snakes had their heads on
C34_Witness ==
    /\ cphase = "resolved"
    /\ \E f \in CFoods :
          /\ centities[f].markedForDeletion
          /\ Cardinality({ s \in CEaters : HeadOnFood(s, f) }) >= 2
    /\ SizeGained(1) > 0

(***************************************************************************)
(* The game (js/gameState.js, Game.startGame in js/food.js): the entities  *)
(* array, the flags and the counters.  An entity here carries what the     *)
(* tick decides on: positions, angles, the NPC's decision state and the    *)
(* quadtree built from the positions are left out, and the collision pass  *)
(* of a tick is handed the positions the snakes have moved to.  The entity *)
(* counts of CONFIG are scaled down to the bounds below.                   *)
(***************************************************************************)
\* CONFIG.NPC.COUNT (20, 40, 60), scaled down
MinNpcs == 1
NPC_COUNT == [EASY |-> MinNpcs, NORMAL |-> MinNpcs + 1, HARD |-> MinNpcs + 2]

\* CONFIG.FOOD.COUNT (500, 400, 300), scaled down
FoodCount == 1
FOOD_COUNT == [EASY |-> FoodCount, NORMAL |-> FoodCount, HARD |-> FoodCount]

SPAWN_RATE == [EASY |-> 5, NORMAL |-> 3, HARD |-> 2]

NPC_INITIAL_SIZE ==
    [EASY |-> [MIN |-> 5, MAX |-> 15], NORMAL |-> [MIN |-> 10, MAX |-> 30],
     HARD |-> [MIN |-> 20, MAX |-> 50]]

\* DeathFood.lifespan as constructed (600 frames), scaled down to the
\* ticks of a game
LifeTicks == 1
LIFESPAN == LifeTicks

\* the ticks of one game, and the length of the entities array a tick
\* starts from
MaxFrames == 1
\* the ticks of a game that is followed for its food respawn only
MaxSpawnTicks == 10
MaxEntities == 40

Difficulties == { "EASY", "NORMAL", "HARD" }

\* new Food(x, y)
NewFood == [type |-> "food", value |-> FOOD_VALUE, markedForDeletion |-> FALSE]

\* new DeathFood(x, y, color)
NewDeathFood ==
    [type |-> "deathFood", value |-> DEATH_FOOD_VALUE, lifespan |-> LIFESPAN,
     markedForDeletion |-> FALSE]

\* DeathFood.update() with destroy() called when the lifespan is below 0
DeathFoodUpdate_Late(f) ==
    LET aged == [f EXCEPT !.lifespan = @ - 1]
    IN  IF aged.lifespan < 0 THEN [aged EXCEPT !.markedForDeletion = TRUE]
        ELSE aged

\* DeathFood.update(): the lifespan runs down and destroy() is called at 0
DeathFoodUpdate(f) ==
    LET aged == [f EXCEPT !.lifespan = @ - 1]
    IN  IF aged.lifespan <= 0 THEN [aged EXCEPT !.markedForDeletion = TRUE]
        ELSE aged

\* the Math.random() outcomes a size or a batch is drawn with: the two ends
EndRolls == { 0, RandomGrid - 1 }

\* Utils.random(min, max) for the outcome k / RandomGrid, in 1/SizeUnit
Random(k, min, max) == (k * (max - min)) \div RandomGrid + min

\* the size createNPCs() draws
InitialNpcSize(difficulty, k) ==
    Random(k, NPC_INITIAL_SIZE[difficulty].MIN * SizeUnit,
           NPC_INITIAL_SIZE[difficulty].MAX * SizeUnit)

\* the size maintainNPCCount() draws: the range moves up with
\* gameTimeMinutes = frameCount / 3600 (rounded down to 1/SizeUnit)
SpawnedNpcSize(difficulty, frameCount, k) ==
    Random(k,
           NPC_INITIAL_SIZE[difficulty].MIN * SizeUnit
             + Min(50 * SizeUnit, (frameCount * 5 * SizeUnit) \div 3600),
           NPC_INITIAL_SIZE[difficulty].MAX * SizeUnit
             + Min(100 * SizeUnit, (frameCount * 10 * SizeUnit) \div 3600))

\* reset()
Reset(g) ==
    [g EXCEPT !.entities = <<>>, !.player = NoSnake, !.isRunning = FALSE,
              !.frameCount = 0, !.spawnCounter = 0]

\* init(difficulty): the player, createNPCs(), createInitialFood(); rolls[i]
\* is the Math.random() outcome that sizes the i-th NPC
GameInit(g, difficulty, rolls) ==
    LET player == NewSnake("player", PLAYER_INITIAL_SIZE * SizeUnit)
    IN  [g EXCEPT
           !.difficulty = difficulty,
           !.player = player,
           !.entities =
               <<player>>
               \o [i \in 1..NPC_COUNT[difficulty] |->
                      NewSnake("npc", InitialNpcSize(difficulty, rolls[i]))]
               \o [i \in 1..FOOD_COUNT[difficulty] |-> NewFood],
           !.isRunning = TRUE,
           !.frameCount = 0]

\* the outcomes of Math.random() < 0.02 and Math.random() < 0.1 for the
\* snakes updated in one tick
UpdateDraws ==
    { [stop |-> FALSE, drop |-> FALSE],
      [stop |-> FALSE, drop |-> TRUE],
      [stop |-> TRUE, drop |-> FALSE] }
Quiet == [stop |-> FALSE, drop |-> FALSE]

\* NPC.update(): decision and steering, which leave boosting as it is (see
\* MakeDecision), then handleBoosting() and Snake.update()
NpcStep(s, draw) == SnakeUpdate(HandleBoosting(s, draw.stop), draw.drop)

RECURSIVE UpdateEntities(_, _, _)
\* update(): for (const entity of this.entities), which also visits the
\* DeathFood pushed during the loop
UpdateEntities(ents, i, draw) ==
    IF i > Len(ents) THEN ents
    ELSE IF ents[i].type = "npc" /\ ~ents[i].markedForDeletion
         THEN LET r == NpcStep(ents[i], draw)
              IN  UpdateEntities(
                      [ents EXCEPT ![i] = r.snake]
                        \o (IF r.ret = "deathFood" THEN <<NewDeathFood>> ELSE <<>>),
                      i + 1, draw)
         ELSE IF ents[i].type = "deathFood"
              THEN UpdateEntities([ents EXCEPT ![i] = DeathFoodUpdate(@)],
                                  i + 1, draw)
              ELSE UpdateEntities(ents, i + 1, draw)

\* where the entities are when the collision pass runs: the player's head at
\* (100, 100), the entities of scene.who at scene.at, every other one on a
\* row of its own
PlayerAt == [x |-> 100, y |-> 100, dir |-> -1]
FarAt(i) == [x |-> 2500, y |-> 200 + 100 * i, dir |-> -1]
PositionOf(scene, i) ==
    IF \E j \in 1..Len(scene.who) : scene.who[j] = i
    THEN scene.at[CHOOSE j \in 1..Len(scene.who) : scene.who[j] = i]
    ELSE IF i = 1 THEN PlayerAt ELSE FarAt(i)

\* an NPC against the player: its head on the player's tail, on the
\* player's body from behind, a head's reach ahead, and across the
\* player's path
NearPlayer ==
    { [x |-> 66, y |-> 100, dir |-> -1], [x |-> 85, y |-> 100, dir |-> -1],
      [x |-> 119, y |-> 100, dir |-> 1], [x |-> 110, y |-> 100, dir |-> 1] }

\* two NPCs against each other: head on, and the second on the first's body
NearPair ==
    { << [x |-> 400, y |-> 100, dir |-> -1], [x |-> 419, y |-> 100, dir |-> 1] >>,
      << [x |-> 400, y |-> 100, dir |-> -1], [x |-> 385, y |-> 100, dir |-> -1] >> }

RECURSIVE FoodIndices(_, _)
\* the Food and DeathFood items not flagged, as indices from i on
FoodIndices(ents, i) ==
    IF i > Len(ents) THEN <<>>
    ELSE (IF IsFoodType(ents[i]) /\ ~ents[i].markedForDeletion
          THEN <<i>> ELSE <<>>) \o FoodIndices(ents, i + 1)

\* the arrangements a tick is tried with
Scenes(ents) ==
    LET npcs == NpcIndices(ents, 1)
        foods == FoodIndices(ents, 1)
    IN  { [who |-> <<>>, at |-> <<>>] }
        \cup { [who |-> <<npcs[n]>>, at |-> <<pl>>] :
                 n \in IF Len(npcs) >= 1 THEN {1} ELSE {}, pl \in NearPlayer }
        \cup { [who |-> <<npcs[1], npcs[2]>>, at |-> pr] :
                 pr \in IF Len(npcs) >= 2 THEN NearPair ELSE {} }
        \cup { [who |-> <<foods[f]>>, at |-> << [x |-> 105, y |-> 100, dir |-> 0] >>] :
                 f \in IF Len(foods) >= 1 THEN {1} ELSE {} }
        \cup { [who |-> <<npcs[1], foods[f]>>,
                at |-> << [x |-> 400, y |-> 100, dir |-> -1],
                          [x |-> 405, y |-> 100, dir |-> 0] >>] :
                 f \in IF Len(npcs) >= 1 /\ Len(foods) >= 1 THEN {1} ELSE {} }

\* the entity with its circles, for the pass
Place(e, at) ==
    IF e.type = "player" \/ e.type = "npc"
    THEN [PlacedSnake(e.type, at.x, at.y, e.size, at.dir) EXCEPT
             !.markedForDeletion = e.markedForDeletion,
             !.killedNPCs = e.killedNPCs]
    ELSE [PlacedFood(e.type, at.x, at.y) EXCEPT
             !.markedForDeletion = e.markedForDeletion]

\* the entity as the pass left it
Placed(e, after) ==
    IF e.type = "player" \/ e.type = "npc"
    THEN [e EXCEPT !.size = after.size,
                   !.markedForDeletion = after.markedForDeletion,
                   !.killedNPCs = after.killedNPCs]
    ELSE [e EXCEPT !.markedForDeletion = after.markedForDeletion]

\* this.entities.filter(entity => !entity.markedForDeletion), kept only
\* for food
RemoveDeleted_FoodOnly(ents) ==
    SelectSeq(ents, LAMBDA e : ~(IsFoodType(e) /\ e.markedForDeletion))

\* this.entities.filter(entity => !entity.markedForDeletion)
RemoveDeleted(ents) == SelectSeq(ents, LAMBDA e : ~e.markedForDeletion)

\* spawnFood() that pushes a Food and leaves the counter running
SpawnFood_NoReset(g) ==
    IF g.spawnCounter + 1 >= SPAWN_RATE[g.difficulty]
    THEN [g EXCEPT !.entities = Append(@, NewFood), !.spawnCounter = @ + 1]
    ELSE [g EXCEPT !.spawnCounter = @ + 1]

\* spawnFood(): the counter after the call and whether a Food was pushed
SpawnFood(g) ==
    IF g.spawnCounter + 1 >= SPAWN_RATE[g.difficulty]
    THEN [g EXCEPT !.entities = Append(@, NewFood), !.spawnCounter = 0]
    ELSE [g EXCEPT !.spawnCounter = @ + 1]

\* entities.filter(e => e.type === 'npc').length
NpcCount(ents) == Len(SelectSeq(ents, LAMBDA e : e.type = "npc"))

\* maintainNPCCount(), spawning at most one NPC a call
MaintainNPCCount_AtMostOne(g, k) ==
    LET npcCount == NpcCount(g.entities)
        targetCount == NPC_COUNT[g.difficulty]
        numToSpawn == IF npcCount < targetCount THEN 1 ELSE 0
    IN  [g EXCEPT !.entities =
            @ \o [i \in 1..numToSpawn |->
                     NewSnake("npc", SpawnedNpcSize(g.difficulty, g.frameCount, k))]]

\* maintainNPCCount(); k is the Math.random() outcome that sizes the NPCs
MaintainNPCCount(g, k) ==
    LET npcCount == NpcCount(g.entities)
        targetCount == NPC_COUNT[g.difficulty]
        numToSpawn == IF npcCount < targetCount THEN targetCount - npcCount ELSE 0
    IN  [g EXCEPT !.entities =
            @ \o [i \in 1..numToSpawn |->
                     NewSnake("npc", SpawnedNpcSize(g.difficulty, g.frameCount, k))]]

\* the entities after player.update() and the loop over the entities
Moved(g, draw) ==
    LET pu == SnakeUpdate(g.entities[1], draw.drop)
    IN  UpdateEntities(
            [g.entities EXCEPT ![1] = pu.snake]
              \o (IF pu.ret = "deathFood" THEN <<NewDeathFood>> ELSE <<>>),
            1, draw)

\* checkCollisions(this.entities, this.player) with the entities at scene
Collide(updated, scene) ==
    CheckCollisions(
        <<>> \o [i \in 1..Len(updated) |->
                    Place(updated[i], PositionOf(scene, i))], 1, qtree)

\* the entities array after this.entities.push(...newEntities)
Collided(updated, pass, k) ==
    [i \in 1..Len(updated) |-> Placed(updated[i], pass.ents[i])]
      \o [i \in 1..Len(FoodItems(pass.deaths,
                                 [j \in 1..Len(pass.deaths) |-> k], 1)) |->
             NewDeathFood]

\* update() from the filter on, with the game left running when the
\* player is flagged
Settle_KeepsRunning(g, collided) ==
    SpawnFood([g EXCEPT !.entities = RemoveDeleted(collided),
                        !.player = collided[1]])

\* update() from the filter on, with a filter that lets the player through
Settle_KeepsPlayer(g, collided) ==
    LET player == collided[1]
        kept == SelectSeq(collided,
                          LAMBDA e : e.type = "player" \/ ~e.markedForDeletion)
        fed == SpawnFood([g EXCEPT !.entities = kept, !.player = player])
    IN  IF player.markedForDeletion THEN [fed EXCEPT !.isRunning = FALSE]
        ELSE fed

\* update() from the filter to the game-over test: the flagged entities
\* are dropped, spawnFood() runs and a flagged player stops the game
Settle(g, collided) ==
    LET player == collided[1]
        fed == SpawnFood([g EXCEPT !.entities = RemoveDeleted(collided),
                                   !.player = player])
    IN  IF player.markedForDeletion THEN [fed EXCEPT !.isRunning = FALSE]
        ELSE fed

\* nothing but the quadtree, the snake and the pass of the other
\* specifications stays as constructed
GInit ==
    /\ game = NewGameState
    /\ glast = Last("new", 0, 0, 0, FALSE, -1)
    /\ qtree = InitQuadtree /\ inserted = <<>> /\ qpalette = {}
    /\ SnakeIdle
    /\ CollIdle
    /\ UtilsIdle
    /\ NpcIdle

\* Game.startGame(difficulty), on game:start from a difficulty button of
\* the menu screen, which startGame() hides and which is shown again only
\* after the game is over
StartGame ==
    /\ ~game.isRunning
    /\ \E difficulty \in Difficulties :
       \E rolls \in [1..NPC_COUNT[difficulty] -> EndRolls] :
         game' = GameInit(Reset(game), difficulty, rolls)
    /\ glast' = Last("startGame", 0, 0, 0, FALSE, -1)
    /\ UNCHANGED <<qvars, svars, cvars, uvars, nvars>>

\* GameState.update() while the game runs.  draw is what the snake updates
\* draw, scene where the entities are when the pass runs, k the
\* Math.random() outcome behind the DeathFood batches and the NPC sizes,
\* tried at both ends where an NPC meets the player.
Update ==
    /\ game.isRunning
    /\ game.frameCount < MaxFrames
    /\ Len(game.entities) <= MaxEntities
    /\ \E scene \in Scenes(game.entities) :
       \E draw \in IF scene.who = <<>> THEN UpdateDraws ELSE {Quiet} :
       \E k \in IF scene.who # <<>> /\ scene.at[1] \in NearPlayer
                  THEN EndRolls ELSE {0} :
       \E counted \in { [game EXCEPT !.frameCount = @ + 1] } :
       \E updated \in { Moved(counted, draw) } :
       \E pass \in { Collide(updated, scene) } :
       \E collided \in { Collided(updated, pass, k) } :
       \E settled \in { Settle(counted, collided) } :
       \E maintained \in { MaintainNPCCount(settled, k) } :
         /\ game' = maintained
         /\ glast' = Last("update",
                          Len(collided) - Len(RemoveDeleted(collided)),
                          NpcCount(settled.entities),
                          NpcCount(maintained.entities) - NpcCount(settled.entities),
                          collided[1].markedForDeletion,
                          \* the dispatch comes after spawnFood() and before
                          \* maintainNPCCount()
                          IF collided[1].markedForDeletion
                          THEN NpcCount(settled.entities) ELSE -1)
    /\ UNCHANGED <<qvars, svars, cvars, uvars, nvars>>

\* GameState.update() while no game runs: if (!this.isRunning) return
UpdateStopped ==
    /\ ~game.isRunning
    /\ glast' = Last("return", 0, 0, 0, FALSE, -1)
    /\ UNCHANGED <<game, qvars, svars, cvars, uvars, nvars>>

\* the mousedown listener of the player: the Player object is entities[0]
\* while the game runs
MouseDown ==
    /\ game.player.type = "player"
    /\ LET player == IF game.player.size > MIN_SEGMENTS_FOR_BOOST * SizeUnit
                     THEN [game.player EXCEPT !.boosting = TRUE]
                     ELSE game.player
       IN  game' = [game EXCEPT !.player = player,
                                !.entities = IF game.isRunning
                                             THEN [@ EXCEPT ![1] = player] ELSE @]
    /\ glast' = Last("mousedown", 0, 0, 0, FALSE, -1)
    /\ UNCHANGED <<qvars, svars, cvars, uvars, nvars>>

\* the mouseup listener of the player
MouseUp ==
    /\ game.player.type = "player"
    /\ LET player == [game.player EXCEPT !.boosting = FALSE]
       IN  game' = [game EXCEPT !.player = player,
                                !.entities = IF game.isRunning
                                             THEN [@ EXCEPT ![1] = player] ELSE @]
    /\ glast' = Last("mouseup", 0, 0, 0, FALSE, -1)
    /\ UNCHANGED <<qvars, svars, cvars, uvars, nvars>>

Next == StartGame \/ Update \/ UpdateStopped \/ MouseDown \/ MouseUp

Spec == GInit /\ [][Next]_vars

(* C9: at the end of every GameState.update() no entity flagged destroyed  *)
(* is left in the live entity collection.                                  *)
C9_NoFlaggedLeft ==
    glast.op = "update" =>
        \A i \in 1..Len(game.entities) : ~game.entities[i].markedForDeletion

\* an update() that removed flagged entities, the player among them
C9_Witness ==
    /\ glast.op = "update"
    /\ glast.removed >= 1
    /\ glast.gameOver
    /\ \A i \in 1..Len(game.entities) : game.entities[i].type # "player"

(* C10: at the end of every tick that began running the number of NPCs in  *)
(* the collection equals the target of the difficulty: maintainNPCCount()  *)
(* found at most the target and spawned exactly the difference.            *)
C10_NpcCount ==
    glast.op = "update" =>
        /\ NpcCount(game.entities) = NPC_COUNT[game.difficulty]
        /\ glast.npcCount <= NPC_COUNT[game.difficulty]
        /\ glast.spawned = NPC_COUNT[game.difficulty] - glast.npcCount

\* an update() that lost two NPCs and spawned two
C10_Witness ==
    /\ glast.op = "update"
    /\ glast.spawned = 2
    /\ NpcCount(game.entities) = NPC_COUNT[game.difficulty]

(* C13: the update() in which the player is flagged sets isRunning false   *)
(* and dispatches game:over once, and no other update() does; while        *)
(* isRunning is false every update() returns with the game state as it was *)
(* and dispatches nothing, and the player's stats stay as reported until   *)
(* the next init().                                                        *)
C13_GameOver ==
    /\ [](glast.op = "update" =>
             /\ game.player.markedForDeletion <=> glast.gameOver
             /\ glast.gameOver <=> ~game.isRunning)
    /\ [](glast.op = "return" => ~glast.gameOver)
    /\ [][ ~game.isRunning =>
             /\ glast'.op \in {"update", "return"} =>
                   (game' = game /\ ~glast'.gameOver)
             /\ glast'.op # "startGame" =>
                   /\ game'.player.size = game.player.size
                   /\ game'.player.killedNPCs = game.player.killedNPCs ]_vars

\* an update() called after the game was over
C13_Witness ==
    /\ glast.op = "return"
    /\ game.player.markedForDeletion
    /\ ~game.isRunning

\* the places of the player in the live collection
PlayerPlaces == { i \in 1..Len(game.entities) : game.entities[i].type = "player" }

(* C38: whenever isRunning is true the live collection holds the player    *)
(* exactly once, as this.player, and the player is not flagged; when an     *)
(* update() ends with isRunning false because the player died, the player   *)
(* is flagged and no longer in the live collection.                         *)
C38_PlayerInCollection ==
    /\ game.isRunning =>
          /\ Cardinality(PlayerPlaces) = 1
          /\ \A i \in PlayerPlaces : game.entities[i] = game.player
          /\ ~game.player.markedForDeletion
    /\ (glast.op = "update" /\ ~game.isRunning) =>
          /\ glast.gameOver
          /\ game.player.markedForDeletion
          /\ PlayerPlaces = {}

\* the update() in which the player died: the game has stopped and the
\* collection holds the NPCs and the food without the player
C38_Witness ==
    /\ glast.op = "update"
    /\ ~game.isRunning
    /\ game.player.markedForDeletion
    /\ PlayerPlaces = {}
    /\ NpcCount(game.entities) > 0


(* C25: the player-death check comes last in a tick, after population     *)
(* maintenance: when update() dispatches game:over the NPCs have been      *)
(* topped up to the target of the difficulty.                              *)
C25_DeathCheckLast ==
    ( glast.op = "update" /\ glast.gameOver ) =>
        glast.overNpcs = NPC_COUNT[game.difficulty]

(***************************************************************************)
(* The quadtree on its own: insert(box), clear(), and retrieve(q) read in  *)
(* the properties.  The boxes are bounds of entities of the game.          *)
(***************************************************************************)
\* a food deep in the top-left corner, a snake head across the vertical
\* midline of the root, a food across the vertical midline of a level-2 node,
\* a head whose right edge lies on the root's vertical midline, a food in the
\* bottom-right quadrant
QBoxes == { GetBounds(100, 100, 5), GetBounds(2500, 100, 10),
            GetBounds(625, 100, 5), GetBounds(2490, 100, 10),
            GetBounds(4000, 4000, 5) }

\* the pairs of kinds a run may insert
QPalettes == { p \in SUBSET QBoxes : Cardinality(p) = 2 }

\* a head next to the first food, the vision square of an NPC (npc.js:89-94)
\* around (400, 400), a head on the root midline, a head in the far corner,
\* a box that only touches the first food's box
QQueries == { GetBounds(110, 100, 10), GetBounds(400, 400, 500),
              GetBounds(2510, 110, 10), GetBounds(4000, 4000, 10),
              GetBounds(115, 100, 10), GetBounds(640, 100, 10),
              GetBounds(2515, 110, 10) }

WithId(box, id) ==
    [id |-> id, x |-> box.x, y |-> box.y, width |-> box.width, height |-> box.height]

QTInit ==
    /\ qtree = InitQuadtree
    /\ inserted = <<>>
    /\ qpalette \in QPalettes
    /\ SnakeIdle
    /\ CollIdle
    /\ GameIdle
    /\ UtilsIdle
    /\ NpcIdle

\* quadtree.insert(entity.getBounds())
QTInsert ==
    /\ Len(inserted) < MaxInserts
    /\ \E b \in qpalette :
         LET obj == WithId(b, Len(inserted) + 1)
         IN  /\ qtree' = Insert(qtree, obj)
             /\ inserted' = Append(inserted, obj)
    /\ UNCHANGED <<qpalette, svars, cvars, gvars, uvars, nvars>>

\* quadtree.clear()
QTClear ==
    /\ inserted # <<>>
    /\ qtree' = Clear(qtree)
    /\ inserted' = <<>>
    /\ UNCHANGED <<qpalette, svars, cvars, gvars, uvars, nvars>>

QTNext == QTInsert \/ QTClear

SpecQT == QTInit /\ [][QTNext]_vars

SeqToSet(s) == { s[i] : i \in 1..Len(s) }

\* closed rectangles: touching edges count as intersecting
Intersects(a, b) ==
    /\ a.x <= b.x + b.width
    /\ b.x <= a.x + a.width
    /\ a.y <= b.y + b.height
    /\ b.y <= a.y + a.height

RECURSIVE NodesOf(_)
\* the nodes of the tree under node, node included
NodesOf(node) ==
    {node} \cup (IF Len(node.nodes) = 0 THEN {}
                 ELSE UNION { NodesOf(node.nodes[k]) : k \in 1..4 })

\* rect lies entirely in the half-planes of the k-th child of a node with
\* these bounds, on both axes
InQuadrant(bounds, k, rect) ==
    LET midX == bounds.x + (bounds.width \div 2)
        midY == bounds.y + (bounds.height \div 2)
        left == rect.x + rect.width < midX
        right == rect.x > midX
        top == rect.y + rect.height < midY
        bottom == rect.y > midY
    IN  CASE k = 1 -> right /\ top
          [] k = 2 -> left /\ top
          [] k = 3 -> left /\ bottom
          [] k = 4 -> right /\ bottom

\* rect has area on both sides of a midline of a node with these bounds
Straddles(bounds, rect) ==
    LET midX == bounds.x + (bounds.width \div 2)
        midY == bounds.y + (bounds.height \div 2)
    IN  \/ rect.x < midX /\ midX < rect.x + rect.width
        \/ rect.y < midY /\ midY < rect.y + rect.height

(* C17: after any inserts since the last clear() every inserted box is     *)
(* stored in exactly one node; a box stored in or under a child lies       *)
(* entirely in that child's half-planes on both axes, and a box that       *)
(* straddles a midline of a node with children is held by no child.        *)
C17_StoredOnce ==
    /\ Len(GetAllObjects(qtree)) = Len(inserted)
    /\ SeqToSet(GetAllObjects(qtree)) = SeqToSet(inserted)
    /\ \A n \in NodesOf(qtree) :
          Len(n.nodes) # 0 =>
             \A k \in 1..4 : \A o \in SeqToSet(GetAllObjects(n.nodes[k])) :
                /\ InQuadrant(n.bounds, k, o)
                /\ ~Straddles(n.bounds, o)

\* a tree that holds a straddling box in the root and, two levels down, a
\* node that has split and kept the boxes that straddle its own midline
C17_Witness ==
    /\ \E o \in SeqToSet(qtree.objects) : Straddles(qtree.bounds, o)
    /\ \E n \in NodesOf(qtree) :
          /\ n.level >= 2 /\ Len(n.nodes) # 0
          /\ \E o \in SeqToSet(n.objects) : Straddles(n.bounds, o)

(* C18: a node has children only if more than MAX_OBJECTS boxes reached it *)
(* and its level is below MAX_LEVELS; no node has a level above            *)
(* MAX_LEVELS, and a childless node below MAX_LEVELS holds at most         *)
(* MAX_OBJECTS boxes.                                                      *)
C18_SplitRule ==
    \A n \in NodesOf(qtree) :
        /\ n.level <= MAX_LEVELS
        /\ Len(n.nodes) # 0 =>
              (n.level < MAX_LEVELS /\ Len(GetAllObjects(n)) > MAX_OBJECTS)
        /\ (Len(n.nodes) = 0 /\ n.level < MAX_LEVELS) =>
              Len(n.objects) <= MAX_OBJECTS

\* a node at MAX_LEVELS that holds more than MAX_OBJECTS boxes
C18_Witness ==
    \E n \in NodesOf(qtree) :
        /\ n.level = MAX_LEVELS
        /\ Len(n.nodes) = 0
        /\ Len(n.objects) > MAX_OBJECTS

(* C1: for any inserts since the last clear() and any query box q,         *)
(* retrieve(q) returns every inserted box that intersects q.               *)
C1_RetrieveSound ==
    \A q \in QQueries :
        \A i \in 1..Len(inserted) :
            Intersects(inserted[i], q) => inserted[i] \in SeqToSet(Retrieve(qtree, q))

\* the root has split, a box that meets the query sits below the root, and
\* retrieve(q) has pruned some other box
C1_Witness ==
    /\ Len(qtree.nodes) # 0
    /\ \E q \in QQueries : \E i \in 1..Len(inserted) :
         /\ Intersects(inserted[i], q)
         /\ inserted[i] \notin SeqToSet(qtree.objects)
         /\ Len(Retrieve(qtree, q)) < Len(inserted)


(***************************************************************************)
(* Utils.wrapPoint and Utils.circleCollision (js/ui.js) called on their    *)
(* own.  Positions are whole px here.                                      *)
(***************************************************************************)
\* Utils.wrapPoint(point): one if per side and axis
WrapPoint(point) ==
    LET x1 == IF point.x < 0 THEN point.x + WORLD_WIDTH ELSE point.x
        x2 == IF x1 >= WORLD_WIDTH THEN x1 - WORLD_WIDTH ELSE x1
        y1 == IF point.y < 0 THEN point.y + WORLD_HEIGHT ELSE point.y
        y2 == IF y1 >= WORLD_HEIGHT THEN y1 - WORLD_HEIGHT ELSE y1
    IN  [x |-> x2, y |-> y2]

\* Utils.isInsideWorld(point)
IsInsideWorld(point) ==
    /\ point.x >= 0 /\ point.x < WORLD_WIDTH
    /\ point.y >= 0 /\ point.y < WORLD_HEIGHT

\* coordinates on, next to and between the multiples of the size of the
\* world, up to more than two sizes away on either side
Offsets == { -1, 0, 1, 2500 }
WrapInputs(size) == { m * size + o : m \in -3..3, o \in Offsets }
WrapPoints ==
    { [x |-> a, y |-> b] : a \in WrapInputs(WORLD_WIDTH),
                           b \in { -WORLD_HEIGHT - 1, -1, 0, 2500,
                                    WORLD_HEIGHT, 2 * WORLD_HEIGHT } }

\* circles of the radii of food, of heads and of body segments, and small
\* ones, with centres 3-4-5 and 5-12-13 apart among others
CircleCentres ==
    { [x |-> a, y |-> b] : a \in { 100, 103, 105, 115, 120 },
                           b \in { 100, 104, 112 } }
CircleRadii ==
    { [num |-> 2, den |-> 1], [num |-> 3, den |-> 1], [num |-> 5, den |-> 2],
      [num |-> FOOD_SIZE, den |-> 1], [num |-> SEGMENT_RADIUS, den |-> 1],
      [num |-> 19, den |-> 2], [num |-> 8, den |-> 1] }
Circles ==
    { [x |-> c.x, y |-> c.y, radius |-> r] : c \in CircleCentres, r \in CircleRadii }

UInit ==
    /\ call = [op |-> "new"]
    /\ ret = 0
    /\ qtree = InitQuadtree /\ inserted = <<>> /\ qpalette = {}
    /\ SnakeIdle
    /\ CollIdle
    /\ GameIdle
    /\ NpcIdle

\* Utils.wrapPoint(point), called once
CallWrapPoint ==
    /\ call.op = "new"
    /\ \E point \in WrapPoints :
         /\ call' = [op |-> "wrapPoint", point |-> point]
         /\ ret' = WrapPoint(point)
    /\ UNCHANGED <<qvars, svars, cvars, gvars, nvars>>

\* Utils.circleCollision(circle1, circle2), called once
CallCircleCollision ==
    /\ call.op = "new"
    /\ \E circle1 \in Circles : \E circle2 \in Circles :
         /\ call' = [op |-> "circleCollision", circle1 |-> circle1,
                      circle2 |-> circle2]
         /\ ret' = CircleCollision(circle1, circle2)
    /\ UNCHANGED <<qvars, svars, cvars, gvars, nvars>>

\* angles are whole multiples of pi / PiUnits; Math.PI is PiUnits
PiUnits == 4

RECURSIVE NormalizeAngle(_)
\* Utils.normalizeAngle(angle): the two while loops
NormalizeAngle(angle) ==
    IF angle < 0 THEN NormalizeAngle(angle + PiUnits * 2)
    ELSE IF angle >= PiUnits * 2 THEN NormalizeAngle(angle - PiUnits * 2)
    ELSE angle

\* Utils.angleDifference(angle1, angle2)
AngleDifference(angle1, angle2) ==
    LET diff == NormalizeAngle(angle2) - NormalizeAngle(angle1)
        down == IF diff > PiUnits THEN diff - PiUnits * 2 ELSE diff
    IN  IF down < -PiUnits THEN down + PiUnits * 2 ELSE down

\* Utils.angleDifference(angle1, angle2), called once on angles up to
\* three half turns either way; ret holds the two normalised angles too
CallAngleDifference ==
    /\ call.op = "new"
    /\ \E angle1 \in (-3 * PiUnits)..(3 * PiUnits) :
       \E angle2 \in (-3 * PiUnits)..(3 * PiUnits) :
         /\ call' = [op |-> "angleDifference", angle1 |-> angle1,
                      angle2 |-> angle2]
         /\ ret' = [a1 |-> NormalizeAngle(angle1), a2 |-> NormalizeAngle(angle2),
                     diff |-> AngleDifference(angle1, angle2)]
    /\ UNCHANGED <<qvars, svars, cvars, gvars, nvars>>

UNext == CallWrapPoint \/ CallCircleCollision \/ CallAngleDifference

SpecUtils == UInit /\ [][UNext]_vars

(* C14: Utils.wrapPoint is idempotent for every position P, the positions  *)
(* more than one world size outside the world included, and returns P      *)
(* unchanged when P is inside [0, width) x [0, height).                    *)
C14_WrapIdempotent ==
    call.op = "wrapPoint" =>
        /\ WrapPoint(ret) = ret
        /\ IsInsideWorld(call.point) => ret = call.point

\* the squared distance of the centres against the squared sum of the
\* radii, over the common denominator
Gap(c1, c2) ==
    LET dx == c2.x - c1.x
        dy == c2.y - c1.y
        n == c1.radius.num * c2.radius.den + c2.radius.num * c1.radius.den
        d == c1.radius.den * c2.radius.den
    IN  (dx * dx + dy * dy) * d * d - n * n

(* C16: Utils.circleCollision(a, b) = Utils.circleCollision(b, a) for all  *)
(* circle pairs, and it is true exactly when the distance of the centres   *)
(* is below r1 + r2: false when the distance equals r1 + r2.               *)
C16_CircleSymmetric ==
    call.op = "circleCollision" =>
        /\ ret = CircleCollision(call.circle2, call.circle1)
        /\ ret <=> Gap(call.circle1, call.circle2) < 0

\* two circles that touch, their centres on neither axis
C16_Witness ==
    /\ call.op = "circleCollision"
    /\ Gap(call.circle1, call.circle2) = 0
    /\ call.circle1.x # call.circle2.x
    /\ call.circle1.y # call.circle2.y
    /\ ~ret


(* C23: Utils.normalizeAngle returns an angle in [0, 2 pi), and             *)
(* Utils.angleDifference returns a difference in (-pi, pi]: never -pi.     *)
C23_AngleRanges ==
    call.op = "angleDifference" =>
        /\ 0 <= ret.a1 /\ ret.a1 < 2 * PiUnits
        /\ 0 <= ret.a2 /\ ret.a2 < 2 * PiUnits
        /\ -PiUnits < ret.diff /\ ret.diff <= PiUnits

(***************************************************************************)
(* The motion of a snake's head in Snake.update() (js/snake.js), on its    *)
(* own.  Positions and steps are in 1/SubPixel px, speeds in 1/10 px.      *)
(***************************************************************************)
SPEED == 3
BOOST_SPEED == 5

\* CONFIG.NPC.SPEED_MULTIPLIER, in tenths
SPEED_MULTIPLIER == [EASY |-> 7, NORMAL |-> 10, HARD |-> 12]

\* the updates of one snake
MaxMoves == 2
\* the updates of a snake that is followed with its chain of segments:
\* enough to cross the map from any first position of the player
MaxChainMoves == 440
MaxBoostFood == 2

\* the JavaScript remainder a % b for b > 0: the sign of a
JsRem(a, b) == IF a >= 0 THEN a % b ELSE -((-a) % b)

\* v % size, without the world size added first
WorldWrap_NoShift(v, size) == JsRem(v, size)

\* (v + size) % size
WorldWrap(v, size) == JsRem(v + size, size)

\* this.speed of a Player and of the NPCs of each difficulty, and the speed
\* update() moves with
OwnSpeeds ==
    { SPEED * 10 } \cup { SPEED * SPEED_MULTIPLIER[d] : d \in DOMAIN SPEED_MULTIPLIER }
MoveSpeed(boosting, speed) == IF boosting THEN BOOST_SPEED * 10 ELSE speed

\* (cos, sin) of this.angle in fifths: along the axes and in between
Headings ==
    { <<5, 0>>, <<-5, 0>>, <<0, 5>>, <<0, -5>>,
      <<3, 4>>, <<-3, 4>>, <<3, -4>>, <<-4, -3>> }

\* Math.cos(this.angle) * speed, rounded down to the grid
Step(c, speed) == (c * speed * SubPixel) \div (5 * 10)

\* update(): this.x += dx, this.y += dy, then the wrap
MoveHead(head, heading, speed) ==
    [x |-> WorldWrap(head.x + Step(heading[1], speed), WORLD_WIDTH * SubPixel),
     y |-> WorldWrap(head.y + Step(heading[2], speed), WORLD_HEIGHT * SubPixel)]

\* heads on and next to the borders of the world and in the middle
StartHeads ==
    { [x |-> a, y |-> b] :
        a \in { 0, 1, WORLD_WIDTH * SubPixel - 1, (WORLD_WIDTH \div 2) * SubPixel },
        b \in { 0, WORLD_HEIGHT * SubPixel - 1, (WORLD_HEIGHT \div 2) * SubPixel } }

MInit ==
    /\ call = [op |-> "newSnake", moves |-> 0]
    /\ ret \in StartHeads
    /\ qtree = InitQuadtree /\ inserted = <<>> /\ qpalette = {}
    /\ SnakeIdle
    /\ CollIdle
    /\ GameIdle
    /\ NpcIdle

\* Snake.update(): the head moves; ret is the head
SnakeMove ==
    /\ call.op \in {"newSnake", "update"}
    /\ call.moves < MaxMoves
    /\ \E heading \in Headings : \E boosting \in BOOLEAN : \E speed \in OwnSpeeds :
         /\ call' = [op |-> "update", moves |-> call.moves + 1, from |-> ret,
                      dx |-> Step(heading[1], MoveSpeed(boosting, speed)),
                      dy |-> Step(heading[2], MoveSpeed(boosting, speed))]
         /\ ret' = MoveHead(ret, heading, MoveSpeed(boosting, speed))
    /\ UNCHANGED <<qvars, svars, cvars, gvars, nvars>>

\* CONFIG.DEATH_FOOD.SPREAD_RADIUS
SPREAD_RADIUS == 100

\* die(): foodX = segment.x + Math.cos(angle) * distance and foodY likewise,
\* for the direction of angle = Utils.random(0, Math.PI * 2) and the outcome
\* k of distance = Utils.random(0, SPREAD_RADIUS), rounded down to the grid
FoodPosition(segment, heading, k) ==
    [x |-> segment.x + (heading[1] * Random(k, 0, SPREAD_RADIUS) * SubPixel) \div 5,
     y |-> segment.y + (heading[2] * Random(k, 0, SPREAD_RADIUS) * SubPixel) \div 5]

\* die() of the snake whose head is ret, in the pass of the tick: ret is
\* the position new DeathFood(foodX, foodY, this.color) is given for the
\* item of i = 0, which is made at this.segments[0], the head.  The item
\* is pushed to the collection as it is made.
DieFoodItem ==
    /\ call.op \in {"newSnake", "update"}
    /\ \E heading \in Headings : \E k \in MathRandom :
         /\ call' = [op |-> "die"]
         /\ ret' = FoodPosition(ret, heading, k)
    /\ UNCHANGED <<qvars, svars, cvars, gvars, nvars>>

MNext == SnakeMove \/ DieFoodItem

SpecMove == MInit /\ [][MNext]_vars

(* C15: after every Snake.update(), boosting or not and at any heading,    *)
(* the head of a snake that was inside the world is inside the world:      *)
(* 0 <= x < WORLD.WIDTH and 0 <= y < WORLD.HEIGHT.                         *)
C15_HeadInWorld ==
    call.op \in {"newSnake", "update"} =>
        /\ 0 <= ret.x /\ ret.x < WORLD_WIDTH * SubPixel
        /\ 0 <= ret.y /\ ret.y < WORLD_HEIGHT * SubPixel

\* an update() that took the head over the left and the bottom border
C15_Witness ==
    /\ call.op = "update"
    /\ call.from.x + call.dx < 0
    /\ call.from.y + call.dy >= WORLD_HEIGHT * SubPixel
    /\ ret.x > (WORLD_WIDTH - BOOST_SPEED) * SubPixel
    /\ ret.y < BOOST_SPEED * SubPixel

(* C32: at every tick boundary the position of every entity of the        *)
(* collection is inside the world: the head of a snake after update() and  *)
(* the DeathFood that die() scattered.                                     *)
C32_AllInWorld ==
    call.op \in {"newSnake", "update", "die"} =>
        /\ 0 <= ret.x /\ ret.x < WORLD_WIDTH * SubPixel
        /\ 0 <= ret.y /\ ret.y < WORLD_HEIGHT * SubPixel


(***************************************************************************)
(* One NPC on its own (js/npc.js): the decision counter, makeDecision()    *)
(* over what the quadtree of the tick returns, the state and the target.   *)
(* The NPC stays where it is; the entities around it are those of the      *)
(* tick.  Positions are whole px, chances are in hundredths.               *)
(***************************************************************************)
\* CONFIG.NPC.TYPES
NPC_TYPES ==
    [NORMAL |-> [EXPLORE_CHANCE |-> 70, ATTACK_CHANCE |-> 20,
                 FLEE_CHANCE |-> 10, DECISION_RATE |-> 30],
     AGGRESSIVE |-> [EXPLORE_CHANCE |-> 30, ATTACK_CHANCE |-> 60,
                     FLEE_CHANCE |-> 10, DECISION_RATE |-> 20],
     COWARD |-> [EXPLORE_CHANCE |-> 80, ATTACK_CHANCE |-> 5,
                 FLEE_CHANCE |-> 15, DECISION_RATE |-> 40]]
VISION_RANGE == 500
DETECTION_RANGE == 300
ATTACK_RANGE == 200

\* targets that are no entity: null, and the random point of 'explore'
NullTarget == 0
PointTarget == -1

\* new NPC(x, y, size, type, difficulty), the entity with the given id;
\* counter is what Utils.randomInt(0, this.decisionRate) returned
NewNpc(id, x, y, size, npcType, counter) ==
    [id |-> id, x |-> x, y |-> y, npcType |-> npcType, state |-> "explore",
     target |-> NullTarget, targetTimeout |-> 0, decisionCounter |-> counter]
    @@ NewSnake("npc", size)

\* entity.type of an object the quadtree returned, undefined when the
\* object has no such property, and the entity an object stands for
TypeOf(obj) == IF "type" \in DOMAIN obj THEN obj.type ELSE "undefined"
IdOf(obj) == IF "id" \in DOMAIN obj THEN obj.id ELSE NullTarget

\* Utils.distance(a, b) < range and <= range for a at (ax, ay) and b at
\* (bx, by), all in the same unit, compared as squares
Nearer(ax, ay, bx, by, range) ==
    /\ Max(ax - bx, bx - ax) < range /\ Max(ay - by, by - ay) < range
    /\ (bx - ax) * (bx - ax) + (by - ay) * (by - ay) < range * range
WithinRange(ax, ay, bx, by, range) ==
    /\ Max(ax - bx, bx - ax) <= range /\ Max(ay - by, by - ay) <= range
    /\ (bx - ax) * (bx - ax) + (by - ay) * (by - ay) <= range * range

\* the squared Utils.distance(this, entity) for an object of the quadtree,
\* whose x and y are on the grid
DistanceSq(n, obj) ==
    (obj.x - n.x * SubPixel) * (obj.x - n.x * SubPixel)
    + (obj.y - n.y * SubPixel) * (obj.y - n.y * SubPixel)

\* list.sort((a, b) => a.distance - b.distance)[0].entity: the nearest,
\* the first of the nearest in the list
Closest(n, list) ==
    list[CHOOSE i \in 1..Len(list) :
            \A j \in 1..Len(list) :
               \/ DistanceSq(n, list[i]) < DistanceSq(n, list[j])
               \/ DistanceSq(n, list[i]) = DistanceSq(n, list[j]) /\ i <= j]

\* chooseExploreTarget() with 18 updates of timeout for a point to explore
ChooseExploreTarget_ShortTimeout(n, nearbyFood) ==
    IF Len(nearbyFood) > 0
    THEN LET deathFood == SelectSeq(nearbyFood, LAMBDA f : TypeOf(f) = "deathFood")
         IN  IF /\ Len(deathFood) > 0
                /\ Nearer(n.x * SubPixel, n.y * SubPixel, Closest(n, deathFood).x,
                          Closest(n, deathFood).y, (VISION_RANGE * 7 * SubPixel) \div 10)
             THEN [n EXCEPT !.state = "collect",
                            !.target = IdOf(Closest(n, deathFood)),
                            !.targetTimeout = 60]
             ELSE [n EXCEPT !.state = "collect",
                            !.target = IdOf(Closest(n, nearbyFood)),
                            !.targetTimeout = 60]
    ELSE [n EXCEPT !.state = "explore", !.target = PointTarget,
                   !.targetTimeout = 18]

\* chooseExploreTarget(nearbyFood)
ChooseExploreTarget(n, nearbyFood) ==
    IF Len(nearbyFood) > 0
    THEN LET deathFood == SelectSeq(nearbyFood, LAMBDA f : TypeOf(f) = "deathFood")
         IN  IF /\ Len(deathFood) > 0
                /\ Nearer(n.x * SubPixel, n.y * SubPixel, Closest(n, deathFood).x,
                          Closest(n, deathFood).y, (VISION_RANGE * 7 * SubPixel) \div 10)
             THEN [n EXCEPT !.state = "collect",
                            !.target = IdOf(Closest(n, deathFood)),
                            !.targetTimeout = 60]
             ELSE [n EXCEPT !.state = "collect",
                            !.target = IdOf(Closest(n, nearbyFood)),
                            !.targetTimeout = 60]
    ELSE [n EXCEPT !.state = "explore", !.target = PointTarget,
                   !.targetTimeout = 180]

\* makeDecision(entities, quadtree) up to the decision: the food, the
\* snakes, the threats and the prey (taken from the snakes before it is
\* used) among what quadtree.retrieve(searchArea) returns
Classify(n, quadtree) ==
    LET \* the loops over nearbySnakes
        bySize(nearbyFood, nearbySnakes) ==
            [nearbyFood |-> nearbyFood,
             nearbySnakes |-> nearbySnakes,
             threats |->
                 SelectSeq(nearbySnakes,
                           LAMBDA e : "size" \in DOMAIN e /\ e.size * 10 > n.size * 12),
             prey |->
                 SelectSeq(nearbySnakes,
                           LAMBDA e : "size" \in DOMAIN e /\ e.size * 10 < n.size * 8)]
        \* the loop over nearbyEntities, for the ones within the vision range
        byType(inVision) ==
            bySize(SelectSeq(inVision,
                             LAMBDA e : TypeOf(e) \in {"food", "deathFood"}),
                   SelectSeq(inVision,
                             LAMBDA e : TypeOf(e) \in {"snake", "player", "npc"}))
        \* entity === this holds for no object: the tree holds the objects
        \* getBounds() made, never an entity
        inRange(nearbyEntities) ==
            byType(SelectSeq(nearbyEntities,
                             LAMBDA e : WithinRange(n.x * SubPixel, n.y * SubPixel,
                                                    e.x, e.y,
                                                    VISION_RANGE * SubPixel)))
    IN  inRange(Retrieve(quadtree, GetBounds(n.x, n.y, VISION_RANGE)))

\* makeDecision(entities, quadtree); draws are the outcomes of the
\* Math.random() calls in the order they are made
MakeDecision(n, quadtree, draws) ==
    LET choose(nearbyFood, fleeDrawn, attackDrawn, threats, prey) ==
            LET i2 == IF fleeDrawn THEN 2 ELSE 1
                i3 == IF attackDrawn THEN i2 + 1 ELSE i2
            IN  IF /\ fleeDrawn
                   /\ RandomBelow(draws[1], NPC_TYPES[n.npcType].FLEE_CHANCE, 100)
                THEN [n EXCEPT !.state = "flee",
                               !.target = IdOf(Closest(n, threats)),
                               !.targetTimeout = 60, !.boosting = TRUE]
                ELSE IF /\ attackDrawn
                        /\ RandomBelow(draws[i2],
                                       NPC_TYPES[n.npcType].ATTACK_CHANCE, 100)
                THEN IF Len(prey) > 0
                     THEN [n EXCEPT !.state = "attack",
                                    !.target = IdOf(Closest(n, prey)),
                                    !.targetTimeout = 120]
                     ELSE ChooseExploreTarget(n, nearbyFood)
                ELSE IF RandomBelow(draws[i3],
                                    NPC_TYPES[n.npcType].EXPLORE_CHANCE, 100)
                THEN ChooseExploreTarget(n, nearbyFood)
                ELSE [n EXCEPT !.state = "wander", !.target = NullTarget,
                               !.targetTimeout = 60]
        \* the flee roll is made when there are threats, the attack roll when
        \* the NPC does not flee and there are snakes
        rolls(seen, fleeDrawn) ==
            choose(seen.nearbyFood, fleeDrawn,
                   /\ ~( /\ fleeDrawn
                         /\ RandomBelow(draws[1],
                                        NPC_TYPES[n.npcType].FLEE_CHANCE, 100) )
                   /\ Len(seen.nearbySnakes) > 0,
                   seen.threats, seen.prey)
        decide(seen) == rolls(seen, Len(seen.threats) > 0)
    IN  decide(Classify(n, quadtree))

\* updateTargetAngle(entities), without the angle: what the 'attack' and
\* 'flee' cases do to state, target and boosting.  A target that is no
\* longer among the entities was flagged when it was removed.
UpdateTargetAngle(n, entities) ==
    LET found == { k \in 1..Len(entities) : entities[k].id = n.target }
        alive == /\ n.target # NullTarget
                 /\ \E k \in found : ~entities[k].markedForDeletion
        t == entities[CHOOSE k \in found : TRUE]
        range == IF n.state = "attack" THEN ATTACK_RANGE ELSE DETECTION_RANGE
    IN  IF n.state \in {"attack", "flee"}
        THEN IF alive
             THEN [n EXCEPT !.boosting =
                      /\ Nearer(n.x, n.y, t.x, t.y, range)
                      /\ n.size > MIN_SEGMENTS_FOR_BOOST * SizeUnit]
             ELSE [n EXCEPT !.state = "explore", !.target = NullTarget,
                            !.boosting = FALSE]
        ELSE n

\* this.decisionCounter > this.decisionRate, after the increment
DecisionDue_Late(n) == n.decisionCounter + 1 > NPC_TYPES[n.npcType].DECISION_RATE

\* this.decisionCounter >= this.decisionRate, after the increment
DecisionDue(n) == n.decisionCounter + 1 >= NPC_TYPES[n.npcType].DECISION_RATE

\* NPC.update(entities, quadtree) up to handleBoosting()
NpcSteer(n, entities, quadtree, draws) ==
    LET counted == [n EXCEPT !.decisionCounter = @ + 1]
        decided == IF DecisionDue(n)
                   THEN [MakeDecision(counted, quadtree, draws) EXCEPT
                            !.decisionCounter = 0]
                   ELSE counted
    IN  UpdateTargetAngle(decided, entities)

\* NPC.update(entities, quadtree)
NpcUpdateFull(n, entities, quadtree, draws, stop, drop) ==
    LET \* if (this.targetTimeout > 0) { this.targetTimeout--; ... }
        timed(handled) ==
            IF handled.targetTimeout > 0
            THEN IF handled.targetTimeout - 1 = 0
                 THEN [handled EXCEPT !.targetTimeout = 0, !.target = NullTarget]
                 ELSE [handled EXCEPT !.targetTimeout = @ - 1]
            ELSE handled
        \* return super.update()
        updated(r) == [npc |-> r.snake, ret |-> r.ret, decided |-> DecisionDue(n)]
    IN  updated(SnakeUpdate(
                    timed(HandleBoosting(NpcSteer(n, entities, quadtree, draws),
                                         stop)),
                    drop))

\* the entities of a tick besides the NPC at (1000, 1000): a large snake
\* near it, a larger one further off, a small one, a large one out of
\* sight, a Food, a DeathFood and a snake of the NPC's size
Surroundings ==
    LET near == [id |-> 2] @@ PlacedSnake("npc", 1100, 1000, 13 * SizeUnit, -1)
        far == [id |-> 3] @@ PlacedSnake("player", 1000, 1400, 30 * SizeUnit, -1)
        small == [id |-> 4] @@ PlacedSnake("npc", 900, 1000, 5 * SizeUnit, -1)
        unseen == [id |-> 5] @@ PlacedSnake("npc", 2000, 1000, 30 * SizeUnit, -1)
        food == [id |-> 6] @@ PlacedFood("food", 1050, 1000)
        deathFood == [id |-> 7] @@ PlacedFood("deathFood", 1000, 950)
        peer == [id |-> 8] @@ PlacedSnake("npc", 1000, 1100, 10 * SizeUnit, -1)
    IN  { <<>>, <<near>>, <<far, near>>, <<small>>, <<unseen>>, <<peer>>,
          <<food, deathFood>>, <<far, near, small, food>> }

\* what nlast holds after an update(): whether it called makeDecision(),
\* the updates since the NPC was made (counted up to one more than the
\* decision rate), the decisions since then (up to 2), the updates since
\* the last decision, and for an update that decided the entities that
\* were around the NPC, the Math.random() outcomes it was given and how
\* many food items, snakes and threats makeDecision() found
NLast(op, decided, updates, decisions, gap, others, draws, seen) ==
    [op |-> op, decided |-> decided, updates |-> updates,
     decisions |-> decisions, gap |-> gap, others |-> others,
     draws |-> draws, seen |-> seen]
NoneSeen == [food |-> 0, snakes |-> 0, threats |-> 0]

\* among the entities around the NPC: the snakes and the food in sight,
\* the snakes larger than 1.2 times the NPC and those smaller than 0.8
\* times, as indices, and the nearest entity of a set of indices
SnakesOf(n, others) ==
    { k \in 1..Len(others) :
        /\ others[k].type \in {"snake", "player", "npc"}
        /\ ~others[k].markedForDeletion
        /\ WithinRange(n.x, n.y, others[k].x, others[k].y, VISION_RANGE) }
FoodOf(n, others) ==
    { k \in 1..Len(others) :
        /\ others[k].type \in {"food", "deathFood"}
        /\ ~others[k].markedForDeletion
        /\ WithinRange(n.x, n.y, others[k].x, others[k].y, VISION_RANGE) }
ThreatsOf(n, others) ==
    { k \in SnakesOf(n, others) : others[k].size * 10 > n.size * 12 }
PreyOf(n, others) ==
    { k \in SnakesOf(n, others) : others[k].size * 10 < n.size * 8 }
NearestOf(n, others, among) ==
    LET d(k) == (others[k].x - n.x) * (others[k].x - n.x)
                + (others[k].y - n.y) * (others[k].y - n.y)
    IN  IF among = {} THEN NullTarget
        ELSE others[CHOOSE k \in among : \A j \in among : d(k) <= d(j)].id

\* the rolls of a decision over the entities around the NPC: the flee
\* roll is the first Math.random() and is made when there is a threat, the
\* attack roll is the next and is made when the NPC does not flee and
\* there is a snake
FleeRoll(n, others, draws) ==
    /\ ThreatsOf(n, others) # {}
    /\ RandomBelow(draws[1], NPC_TYPES[n.npcType].FLEE_CHANCE, 100)
AttackRoll(n, others, draws) ==
    /\ ~FleeRoll(n, others, draws)
    /\ SnakesOf(n, others) # {}
    /\ RandomBelow(draws[IF ThreatsOf(n, others) # {} THEN 2 ELSE 1],
                   NPC_TYPES[n.npcType].ATTACK_CHANCE, 100)

NInit ==
    \* Utils.randomInt(0, this.decisionRate) returns any of 0..rate: the
    \* ends, the one before the end and the middle are taken
    /\ \E npcType \in DOMAIN NPC_TYPES :
       \E rate \in { NPC_TYPES[npcType].DECISION_RATE } :
       \E counter \in { 0, rate \div 2, rate - 1, rate } :
         npc = NewNpc(1, 1000, 1000, 10 * SizeUnit, npcType, counter)
    /\ nlast = NLast("new", FALSE, 0, 0, 0, <<>>, <<0, 0, 0>>, NoneSeen)
    /\ qtree = InitQuadtree /\ inserted = <<>> /\ qpalette = {}
    /\ SnakeIdle
    /\ CollIdle
    /\ GameIdle
    /\ UtilsIdle

\* one tick for the NPC: updateQuadtree(entities) over the NPC and the
\* entities around it, then npc.update(entities, quadtree)
NpcTick ==
    /\ npc.type = "npc"
    /\ \E others \in Surroundings :
       \E entities \in { << [id |-> npc.id]
                            @@ PlacedSnake("npc", npc.x, npc.y, npc.size, -1) >>
                         \o others } :
       \E tree \in { UpdateQuadtree(qtree, entities) } :
       \E draws \in IF DecisionDue(npc) THEN [1..3 -> MathRandom]
                    ELSE { <<0, 0, 0>> } :
       \E steered \in { NpcSteer(npc, entities, tree, draws) } :
       \E stop \in IF steered.boosting
                   THEN { RandomBelow(k, 2, 100) : k \in EndRolls }
                   ELSE { FALSE } :
       \E drop \in IF steered.boosting
                   THEN { RandomBelow(k, 1, 10) : k \in EndRolls }
                   ELSE { FALSE } :
       \E r \in { NpcUpdateFull(npc, entities, tree, draws, stop, drop) } :
       \E seen \in { Classify(npc, tree) } :
         /\ npc' = r.npc
         /\ qtree' = tree
         /\ nlast' = NLast("update", r.decided,
                           Min(nlast.updates + 1,
                               NPC_TYPES[npc.npcType].DECISION_RATE + 1),
                           Min(nlast.decisions + (IF r.decided THEN 1 ELSE 0), 2),
                           IF nlast.decided THEN 1 ELSE nlast.gap + 1,
                           IF r.decided THEN others ELSE <<>>,
                           draws,
                           IF r.decided
                           THEN [food |-> Len(seen.nearbyFood),
                                 snakes |-> Len(seen.nearbySnakes),
                                 threats |-> Len(seen.threats)]
                           ELSE NoneSeen)
    /\ UNCHANGED <<inserted, qpalette, svars, cvars, gvars, uvars>>

SpecNpc == NInit /\ [][NpcTick]_vars

(* C19: after every NPC.update() 0 <= decisionCounter < decisionRate;      *)
(* makeDecision() runs on an update exactly when the counter reached       *)
(* decisionRate on it, which leaves the counter at 0; the first decision   *)
(* comes on the decisionRate-th update at the latest, and every later one  *)
(* exactly decisionRate updates after the one before.                      *)
C19_DecisionCycle ==
    nlast.op = "update" =>
        /\ 0 <= npc.decisionCounter
        /\ npc.decisionCounter < NPC_TYPES[npc.npcType].DECISION_RATE
        /\ nlast.decided <=> npc.decisionCounter = 0
        /\ nlast.decisions = 0 => nlast.updates < NPC_TYPES[npc.npcType].DECISION_RATE
        /\ (nlast.decided /\ nlast.decisions = 2) =>
              nlast.gap = NPC_TYPES[npc.npcType].DECISION_RATE

\* the second decision of an NPC that was made with the counter at 0
C19_Witness ==
    /\ nlast.op = "update"
    /\ nlast.decided
    /\ nlast.decisions = 2
    /\ nlast.gap = NPC_TYPES[npc.npcType].DECISION_RATE

(* C20: after an update() that decided while a snake within visionRange    *)
(* was larger than 1.2 times the NPC and whose flee roll succeeded, the    *)
(* NPC's state is 'flee' and its target is the nearest such snake.         *)
C20_FleeFirst ==
    ( /\ nlast.op = "update"
      /\ nlast.decided
      /\ FleeRoll(npc, nlast.others, nlast.draws) )
    => /\ npc.state = "flee"
       /\ npc.target = NearestOf(npc, nlast.others, ThreatsOf(npc, nlast.others))

(* C21: after an update() that decided, the NPC's state is 'attack' only   *)
(* if the attack roll succeeded and a snake within visionRange is smaller  *)
(* than 0.8 times the NPC, the nearest of which is its target; and when    *)
(* the attack roll succeeded with no such snake the state is 'explore' or  *)
(* 'collect', not 'wander'.                                                *)
C21_AttackOnlyPrey ==
    ( nlast.op = "update" /\ nlast.decided ) =>
        /\ npc.state = "attack" =>
              /\ AttackRoll(npc, nlast.others, nlast.draws)
              /\ PreyOf(npc, nlast.others) # {}
              /\ npc.target = NearestOf(npc, nlast.others, PreyOf(npc, nlast.others))
        /\ ( /\ AttackRoll(npc, nlast.others, nlast.draws)
             /\ PreyOf(npc, nlast.others) = {} )
           => npc.state \in {"explore", "collect"}

(* C24: in an update() that decided, every food and every snake around     *)
(* the NPC within visionRange is a food or a snake candidate of            *)
(* makeDecision(), and the threats are the snakes larger than 1.2 times    *)
(* the NPC.                                                                *)
C24_Classified ==
    ( nlast.op = "update" /\ nlast.decided ) =>
        /\ nlast.seen.food = Cardinality(FoodOf(npc, nlast.others))
        /\ nlast.seen.snakes = Cardinality(SnakesOf(npc, nlast.others))
        /\ nlast.seen.threats = Cardinality(ThreatsOf(npc, nlast.others))

(* C36: once an NPC has made a decision its targetTimeout is above 0 at    *)
(* the end of every update: a decision sets it to 60 or more and the next  *)
(* decision comes before it has run down, so the countdown never clears    *)
(* the target.                                                             *)
C36_TimeoutHolds ==
    (nlast.op = "update" /\ nlast.decisions >= 1) =>
        /\ npc.targetTimeout > 0
        /\ npc.targetTimeout >= 60 - NPC_TYPES[npc.npcType].DECISION_RATE
        /\ npc.state = "explore" => npc.target = PointTarget

\* the update before a decision of an NPC that decides every 30 updates
\* and last chose to wander: 30 updates of its timeout are left
C36_Witness ==
    /\ nlast.op = "update"
    /\ nlast.decisions >= 1
    /\ ~nlast.decided
    /\ npc.npcType = "NORMAL"
    /\ npc.state = "wander"
    /\ npc.decisionCounter = NPC_TYPES["NORMAL"].DECISION_RATE - 1
    /\ npc.targetTimeout = 60 - NPC_TYPES["NORMAL"].DECISION_RATE

DEATH_FOOD_LIFESPAN == 600

\* one update() of a running game.  The first pushes the item, dropped by
\* player.update() before the loop over the entities or returned by the
\* pass after it; a later one finds it in the collection.  The loop calls
\* its update(), the pass flags it when a head is on it (eaten) and the
\* filter drops it when it is flagged.
FoodTick ==
    /\ call.op \in {"new", "tick"}
    /\ call.op = "tick" => ret.in
    /\ \E origin \in IF call.op = "new" THEN {"drop", "death"} ELSE {call.origin} :
       \E eaten \in BOOLEAN :
         LET first == call.op = "new"
             item == IF first
                     THEN [NewDeathFood EXCEPT !.lifespan = DEATH_FOOD_LIFESPAN]
                     ELSE ret.food
             looped == ~first \/ origin = "drop"
             updated == IF looped THEN DeathFoodUpdate(item) ELSE item
             bitten == looped /\ eaten /\ ~updated.markedForDeletion
             passed == IF bitten THEN [updated EXCEPT !.markedForDeletion = TRUE]
                       ELSE updated
         IN  /\ call' = [op |-> "tick", origin |-> origin]
             /\ ret' = [food |-> passed,
                         in |-> RemoveDeleted(<<passed>>) # <<>>,
                         ticks |-> IF first THEN 0 ELSE ret.ticks + 1,
                         updates |-> (IF first THEN 0 ELSE ret.updates)
                                     + (IF looped THEN 1 ELSE 0),
                         eaten |-> bitten \/ (~first /\ ret.eaten)]
    /\ UNCHANGED <<qvars, svars, cvars, gvars, nvars>>

SpecFood == UInit /\ [][FoodTick]_vars

(* C27: a DeathFood that is not eaten is flagged on its 600th update() and *)
(* leaves the collection in that tick; no DeathFood is in the collection   *)
(* more than 600 ticks after the tick that pushed it, and none is left in  *)
(* it flagged.                                                             *)
C27_DeathFoodExpires ==
    call.op = "tick" =>
        /\ ret.in => ~ret.food.markedForDeletion
        /\ ret.in => ret.ticks <= DEATH_FOOD_LIFESPAN
        /\ (ret.in /\ ~ret.eaten) => ret.updates < DEATH_FOOD_LIFESPAN
        /\ (~ret.in /\ ~ret.eaten) => ret.updates = DEATH_FOOD_LIFESPAN

\* the DeathFood of a death, gone with its 600th update(), 600 ticks after
\* the tick of the death
C27_Witness ==
    /\ call.op = "tick"
    /\ call.origin = "death"
    /\ ~ret.in /\ ~ret.eaten
    /\ ret.updates = DEATH_FOOD_LIFESPAN
    /\ ret.ticks = DEATH_FOOD_LIFESPAN

(***************************************************************************)
(* The index across ticks (js/collision.js, js/gameState.js)               *)
(***************************************************************************)

\* GameState.update() up to this.collisionSystem.updateQuadtree(
\* this.entities): the live collection of the tick is any part of a world
\* of a player, an NPC, a food item, a DeathFood, a second food item at
\* the place of the first and a row of nine food items across the map.  call and ret
\* hold whether the index had child nodes and more boxes than the tick has
\* entities when the tick began, inserted the boxes of the entities of the
\* tick.
IndexTick ==
    /\ call.op \in {"new", "updateQuadtree"}
    /\ \E picked \in SUBSET (1..6) :
         LET single == << PlacedSnake("player", 1000, 1000, 10 * SizeUnit, -1),
                          PlacedSnake("npc", 1100, 1000, 13 * SizeUnit, -1),
                          PlacedFood("food", 150, 100),
                          PlacedFood("deathFood", 1000, 950),
                          PlacedFood("food", 150, 100) >>
             row == [i \in 1..9 |-> PlacedFood("food", 500 * i, 3000 - 300 * i)]
             entities == SelectSeq([i \in 1..5 |-> [at |-> i, e |-> single[i]]],
                                   LAMBDA c : c.at \in picked)
             live == [i \in 1..Len(entities) |-> entities[i].e]
                     \o (IF 6 \in picked THEN row ELSE <<>>)
         IN  /\ qtree' = UpdateQuadtree(qtree, live)
             /\ inserted' = [i \in 1..Len(live) |-> EntityGetBounds(live[i])]
             /\ call' = [op |-> "updateQuadtree"]
             /\ ret' = [more |-> Len(GetAllObjects(qtree)) > Len(live),
                        split |-> Len(qtree.nodes) # 0]
    /\ UNCHANGED <<qpalette, svars, cvars, gvars, nvars>>

SpecIndex == UInit /\ [][IndexTick]_vars

\* how many times box b occurs in the sequence s
Occurrences(s, b) == Cardinality({ i \in 1..Len(s) : s[i] = b })

(* C28: after updateQuadtree() the index holds exactly one box for each    *)
(* entity of the collection it was given, as many equal boxes as there are *)
(* entities with that box, and no box of an earlier tick; clear() leaves   *)
(* the tree with no objects and no child nodes.                            *)
C28_IndexRebuilt ==
    /\ call.op = "updateQuadtree" =>
          LET held == GetAllObjects(qtree)
          IN  /\ Len(held) = Len(inserted)
              /\ \A b \in SeqToSet(held) \cup SeqToSet(inserted) :
                    Occurrences(held, b) = Occurrences(inserted, b)
    /\ Clear(qtree).objects = <<>>
    /\ Clear(qtree).nodes = <<>>

\* a tick that found the index with child nodes and more boxes than it has
\* entities, and leaves it with two equal boxes and no child nodes
C28_Witness ==
    /\ call.op = "updateQuadtree"
    /\ ret.split /\ ret.more
    /\ Len(qtree.nodes) = 0
    /\ \E i, j \in 1..Len(inserted) : i # j /\ inserted[i] = inserted[j]
    /\ \E i, j \in 1..Len(inserted) : i # j /\ inserted[i] = inserted[j]

(***************************************************************************)
(* GameMap.getRandomPositionAwayFromEntities; positions in px              *)
(***************************************************************************)

\* one pass of the while loop that takes any position within padding of
\* the entities for a valid one
AwayAttempt_PaddingAsDistance(st, entities, minDistance, padding, kx, ky) ==
    LET position == [x |-> Random(kx, padding, WORLD_WIDTH - padding),
                     y |-> Random(ky, padding, WORLD_HEIGHT - padding)]
        near(e) == (position.x - e.x) * (position.x - e.x)
                   + (position.y - e.y) * (position.y - e.y)
                   < padding * padding
    IN  [attempts |-> st.attempts + 1, position |-> position,
         valid |-> \A i \in 1..Len(entities) : ~near(entities[i])]

\* one pass of the while loop: position = this.getRandomPosition(padding)
\* for the Math.random() outcomes kx and ky, valid unless
\* Utils.distance(position, entity) < minDistance for an entity, attempts++
AwayAttempt(st, entities, minDistance, padding, kx, ky) ==
    LET position == [x |-> Random(kx, padding, WORLD_WIDTH - padding),
                     y |-> Random(ky, padding, WORLD_HEIGHT - padding)]
        near(e) == (position.x - e.x) * (position.x - e.x)
                   + (position.y - e.y) * (position.y - e.y)
                   < minDistance * minDistance
    IN  [attempts |-> st.attempts + 1, position |-> position,
         valid |-> \A i \in 1..Len(entities) : ~near(entities[i])]

\* getRandomPositionAwayFromEntities([this.player], 200, 100, 10) of
\* createNPCs() and ([this.player], 300, 100, 10) of maintainNPCCount(),
\* one step at a time: the call, a pass of the loop while
\* !valid && attempts < maxAttempts, the return of position ||
\* this.getRandomPosition(padding).  ret.position is undefined while
\* ret.attempts is 0, ret.candidates counts the getRandomPosition() calls.
GetRandomPositionAwayFromEntities ==
    /\ call.op \in {"new", "away"}
    /\ call.op = "away" => ~ret.done
    /\ \E player \in IF call.op = "new"
                       THEN { [x |-> 1300, y |-> 1300], [x |-> 1300, y |-> 1500],
                              [x |-> 1300, y |-> 1600] }
                       ELSE { call.entities[1] } :
       \E minDistance \in IF call.op = "new" THEN { 200, 300 }
                            ELSE { call.minDistance } :
       \E kx \in MathRandom : \E ky \in MathRandom :
         IF call.op = "new"
         THEN /\ call' = [op |-> "away", entities |-> <<player>>,
                          minDistance |-> minDistance, padding |-> 100,
                          maxAttempts |-> 10]
              /\ ret' = [attempts |-> 0, position |-> [x |-> 0, y |-> 0],
                         valid |-> FALSE, candidates |-> 0, done |-> FALSE]
         ELSE /\ call' = call
              /\ ret' =
                   IF ~ret.valid /\ ret.attempts < call.maxAttempts
                   THEN LET st == AwayAttempt(ret, call.entities,
                                              call.minDistance, call.padding,
                                              kx, ky)
                        IN  st @@ [candidates |-> ret.candidates + 1,
                                   done |-> FALSE]
                   ELSE IF ret.attempts = 0
                   THEN [ret EXCEPT
                           !.position =
                               [x |-> Random(kx, call.padding,
                                             WORLD_WIDTH - call.padding),
                                y |-> Random(ky, call.padding,
                                             WORLD_HEIGHT - call.padding)],
                           !.candidates = @ + 1, !.done = TRUE]
                   ELSE [ret EXCEPT !.done = TRUE]
    /\ UNCHANGED <<qvars, svars, cvars, gvars, nvars>>

SpecAway == UInit /\ [][GetRandomPositionAwayFromEntities]_vars

(* C30: getRandomPositionAwayFromEntities() returns after at most          *)
(* maxAttempts candidate positions, with a position inside the padding;    *)
(* when its last attempt was valid the position is at least minDistance    *)
(* from every entity, and it returns a position of an attempt that was not *)
(* valid only after maxAttempts attempts.                                  *)
C30_AwayWithinBudget ==
    call.op = "away" =>
        /\ ret.candidates <= call.maxAttempts
        /\ ret.attempts <= call.maxAttempts
        /\ ret.done =>
              /\ ret.candidates >= 1
              /\ ret.position.x \in call.padding..(WORLD_WIDTH - call.padding)
              /\ ret.position.y \in call.padding..(WORLD_HEIGHT - call.padding)
              /\ ret.valid =>
                    \A i \in 1..Len(call.entities) :
                        (ret.position.x - call.entities[i].x)
                            * (ret.position.x - call.entities[i].x)
                        + (ret.position.y - call.entities[i].y)
                            * (ret.position.y - call.entities[i].y)
                        >= call.minDistance * call.minDistance
              /\ ~ret.valid => ret.attempts = call.maxAttempts

\* the call of maintainNPCCount() returning a position 200 px from the
\* player after ten attempts that were not valid
C30_Witness ==
    /\ call.op = "away" /\ ret.done
    /\ call.minDistance = 300
    /\ ~ret.valid /\ ret.attempts = call.maxAttempts
    /\ call.entities[1] = [x |-> 1300, y |-> 1500]
    /\ ret.position = [x |-> 1300, y |-> 1300]

(***************************************************************************)
(* Periodic food respawn (js/gameState.js)                                 *)
(***************************************************************************)

\* GameState.update() of a tick in which nothing moves into anything: the
\* count, a pass that flags nothing or (dies) the player, the filter,
\* spawnFood(), the game-over test and maintainNPCCount().  ret holds the
\* Food items the tick added.
SpawnTick ==
    /\ game.isRunning
    /\ game.frameCount < MaxSpawnTicks
    /\ \E dies \in BOOLEAN :
       \E counted \in { [game EXCEPT !.frameCount = @ + 1] } :
       \E collided \in { [counted.entities EXCEPT ![1].markedForDeletion = dies] } :
       \E settled \in { Settle(counted, collided) } :
       \E maintained \in { MaintainNPCCount(settled, 0) } :
         /\ game' = maintained
         /\ glast' = Last("update", Len(collided) - Len(RemoveDeleted(collided)),
                          NpcCount(settled.entities), 0, dies, -1)
         /\ ret' = [food |-> Len(SelectSeq(maintained.entities,
                                           LAMBDA e : e.type = "food"))
                             - Len(SelectSeq(game.entities,
                                             LAMBDA e : e.type = "food"))]
    /\ UNCHANGED <<call, qvars, svars, cvars, nvars>>

SpecSpawn == GInit /\ [][StartGame \/ SpawnTick]_vars

(* C31: at the end of every tick of a running game the spawn counter is    *)
(* at least 0 and below SPAWN_RATE[difficulty]; the tick added one Food if *)
(* it is a SPAWN_RATE-th tick of the game and none otherwise, and the      *)
(* counter is 0 exactly after the ticks that added one.                    *)
C31_SpawnCycle ==
    glast.op = "update" =>
        /\ game.spawnCounter >= 0
        /\ game.spawnCounter < SPAWN_RATE[game.difficulty]
        /\ ret.food = IF game.frameCount % SPAWN_RATE[game.difficulty] = 0
                      THEN 1 ELSE 0
        /\ (game.spawnCounter = 0) <=> (ret.food = 1)

\* the second Food of an EASY game, on its tenth tick
C31_Witness ==
    /\ glast.op = "update"
    /\ game.difficulty = "EASY"
    /\ game.frameCount = 2 * SPAWN_RATE["EASY"]
    /\ ret.food = 1
    /\ game.spawnCounter = 0

(***************************************************************************)
(* The chain of segments (js/snake.js): a player that heads along +x, as   *)
(* constructed, and does not boost; x on the grid, y the same for all      *)
(* segments                                                                *)
(***************************************************************************)

Abs(v) == IF v >= 0 THEN v ELSE -v

\* update(): the head segment takes the place of the head; the loop from
\* the last segment down to the second moves each one half of its excess
\* over segmentSpacing towards prevSegment, which is the moved head for the
\* second segment and a segment not yet moved for the others.  With all
\* segments on one line Utils.angle() is 0 or pi and Utils.distance() the
\* difference of the x; the half is rounded down to the grid.
FollowSegments(segments, head) ==
    [i \in 1..Len(segments) |->
        IF i = 1 THEN head
        ELSE LET prevSegment == IF i = 2 THEN head ELSE segments[i - 1]
                 distance == Abs(prevSegment - segments[i])
                 moveAmount == (distance - SEGMENT_SPACING * SubPixel) \div 2
             IN  IF distance > SEGMENT_SPACING * SubPixel
                 THEN IF prevSegment >= segments[i]
                      THEN segments[i] + moveAmount
                      ELSE segments[i] - moveAmount
                 ELSE segments[i]]

\* new Player(playerPos.x, playerPos.y) with initSegments(): the position
\* is getRandomPosition() and the segments trail towards -x
ChainInit ==
    /\ \E k \in MathRandom :
         LET x == Random(k, 100, WORLD_WIDTH - 100)
             segments == [i \in 1..SegmentCount(PLAYER_INITIAL_SIZE * SizeUnit) |->
                             (x - (i - 1) * SEGMENT_SPACING) * SubPixel]
         IN  /\ snake = [type |-> "player", segments |-> segments, moves |-> 0]
             /\ sret = segments
    /\ sop = "new"
    /\ qtree = InitQuadtree /\ inserted = <<>> /\ qpalette = {}
    /\ CollIdle
    /\ GameIdle
    /\ UtilsIdle
    /\ NpcIdle

\* Snake.update() of the player: the head moves and wraps, the segments
\* follow; sret holds the segments as they were before the update
ChainUpdate ==
    /\ snake.moves < MaxChainMoves
    /\ LET head == MoveHead([x |-> snake.segments[1], y |-> 0], <<5, 0>>,
                            SPEED * 10)
       IN  snake' = [snake EXCEPT
                        !.segments = FollowSegments(@, head.x),
                        !.moves = @ + 1]
    /\ sret' = snake.segments
    /\ sop' = "update"
    /\ UNCHANGED <<qvars, cvars, gvars, uvars, nvars>>

SpecChain == ChainInit /\ [][ChainUpdate]_vars

\* the distance of two x on the torus of the world
AroundWorld(a, b) ==
    Min(Abs(a - b), WORLD_WIDTH * SubPixel - Abs(a - b))

(* C35: at the end of every tick two consecutive segments of a snake are   *)
(* at most SEGMENT_SPACING + 2 * BOOST_SPEED apart and no segment has      *)
(* moved by more than BOOST_SPEED in the tick, the ticks in which the head *)
(* wraps included; distances are taken around the world.                   *)
C35_ChainFollows ==
    sop = "update" =>
        /\ \A i \in 1..(Len(snake.segments) - 1) :
              AroundWorld(snake.segments[i], snake.segments[i + 1])
                 <= (SEGMENT_SPACING + 2 * BOOST_SPEED) * SubPixel
        /\ \A i \in 1..Len(snake.segments) :
              AroundWorld(snake.segments[i], sret[i]) <= BOOST_SPEED * SubPixel


(***************************************************************************)
(* The size of a snake as the JavaScript Number it is: an IEEE 754 double. *)
(* A double d below 16 is a whole number of 2^-57, held as                  *)
(* d = (hi * Limb + lo) * 2^-57, and every operation rounds its exact       *)
(* result to the 53 significant bits of a double, ties to even.            *)
(***************************************************************************)
Limb == 2^30

\* the Number n, a whole number below 16
DoubleOf(n) == [hi |-> n * 2^27, lo |-> 0]

\* CONFIG.PLAYER.BOOST_CONSUMPTION: the double nearest to 0.05, which is
\* 7205759403792794 * 2^-57
BoostConsumptionDouble == [hi |-> 6710886, lo |-> 429496730]

\* a > b
DoubleGreater(a, b) == a.hi > b.hi \/ (a.hi = b.hi /\ a.lo > b.lo)

\* the spacing of the doubles around v, in 2^-57: 53 bits from the leading
\* bit of v, for 1 <= v < 16
DoubleSpacing(v) ==
    IF v.hi >= 2^30 THEN 2^8
    ELSE IF v.hi >= 2^29 THEN 2^7
    ELSE IF v.hi >= 2^28 THEN 2^6
    ELSE 2^5

\* the double nearest to the exact value v, ties to the even one
RoundToDouble(v) ==
    LET q == DoubleSpacing(v)
        r == v.lo % q
        down == v.lo - r
        up == 2 * r > q \/ (2 * r = q /\ (down \div q) % 2 = 1)
        lo == IF up THEN down + q ELSE down
    IN  IF lo = Limb THEN [hi |-> v.hi + 1, lo |-> 0] ELSE [hi |-> v.hi, lo |-> lo]

\* a - b in doubles, for a >= b
DoubleMinus(a, b) ==
    RoundToDouble(IF a.lo >= b.lo
                  THEN [hi |-> a.hi - b.hi, lo |-> a.lo - b.lo]
                  ELSE [hi |-> a.hi - b.hi - 1, lo |-> a.lo + Limb - b.lo])

\* a + b in doubles
DoublePlus(a, b) ==
    RoundToDouble(IF a.lo + b.lo < Limb
                  THEN [hi |-> a.hi + b.hi, lo |-> a.lo + b.lo]
                  ELSE [hi |-> a.hi + b.hi + 1, lo |-> a.lo + b.lo - Limb])

\* Math.floor(size / 2)
HalfFloor(size) == size.hi \div 2^28

\* new Player(x, y): size = CONFIG.PLAYER.INITIAL_SIZE, not boosting, with
\* the segments of initSegments(); eaten counts the calls of eatFood()
BoostInit ==
    /\ snake = [type |-> "player", size |-> DoubleOf(PLAYER_INITIAL_SIZE),
                boosting |-> FALSE,
                segments |-> Max(5, HalfFloor(DoubleOf(PLAYER_INITIAL_SIZE))),
                eaten |-> 0]
    /\ sop = "new"
    /\ sret = [before |-> DoubleOf(PLAYER_INITIAL_SIZE), boosting |-> FALSE,
               ret |-> "null"]
    /\ qtree = InitQuadtree /\ inserted = <<>> /\ qpalette = {}
    /\ CollIdle
    /\ GameIdle
    /\ UtilsIdle
    /\ NpcIdle

\* the mousedown listener of the player
BoostMouseDown ==
    /\ snake' = IF DoubleGreater(snake.size, DoubleOf(MIN_SEGMENTS_FOR_BOOST))
                THEN [snake EXCEPT !.boosting = TRUE] ELSE snake
    /\ sop' = "mousedown"
    /\ sret' = [before |-> snake.size, boosting |-> snake.boosting, ret |-> "null"]
    /\ UNCHANGED <<qvars, cvars, gvars, uvars, nvars>>

\* the mouseup listener of the player
BoostMouseUp ==
    /\ snake' = [snake EXCEPT !.boosting = FALSE]
    /\ sop' = "mouseup"
    /\ sret' = [before |-> snake.size, boosting |-> snake.boosting, ret |-> "null"]
    /\ UNCHANGED <<qvars, cvars, gvars, uvars, nvars>>

\* Snake.update() from "Handle boosting" on; drop is the outcome of
\* Math.random() < 0.1, and sret keeps the size and the flag the update
\* started with
BoostUpdate ==
    /\ \E drop \in { RandomBelow(k, 1, 10) : k \in MathRandom } :
         LET paying == /\ snake.boosting
                       /\ DoubleGreater(snake.size, DoubleOf(MIN_SEGMENTS_FOR_BOOST))
             size == IF paying THEN DoubleMinus(snake.size, BoostConsumptionDouble)
                     ELSE snake.size
         IN  /\ snake' = [snake EXCEPT
                              !.size = size,
                              !.segments = IF paying /\ drop THEN @
                                           ELSE Max(5, HalfFloor(size))]
             /\ sret' = [before |-> snake.size, boosting |-> snake.boosting,
                         ret |-> IF paying /\ drop THEN "deathFood" ELSE "null"]
    /\ sop' = "update"
    /\ UNCHANGED <<qvars, cvars, gvars, uvars, nvars>>

\* eatFood(food) of a Food
BoostEatFood ==
    /\ snake.eaten < MaxBoostFood
    /\ snake' = [snake EXCEPT !.size = DoublePlus(@, DoubleOf(FOOD_VALUE)),
                              !.eaten = @ + 1]
    /\ sop' = "eatFood"
    /\ sret' = [before |-> snake.size, boosting |-> snake.boosting, ret |-> "null"]
    /\ UNCHANGED <<qvars, cvars, gvars, uvars, nvars>>

SpecBoost ==
    BoostInit /\ [][BoostMouseDown \/ BoostMouseUp \/ BoostUpdate \/ BoostEatFood]_vars

(* C39: an update() changes the size of a snake only by the boost cost, and *)
(* only if the snake is boosting with its size strictly above              *)
(* MIN_SEGMENTS_FOR_BOOST at that update; and a size that was at or above  *)
(* MIN_SEGMENTS_FOR_BOOST is not below it after the update, whatever size  *)
(* the snake started from.                                                 *)
C39_BoostFloor ==
    sop = "update" =>
        /\ snake.size # sret.before =>
              /\ sret.boosting
              /\ DoubleGreater(sret.before, DoubleOf(MIN_SEGMENTS_FOR_BOOST))
              /\ snake.size = DoubleMinus(sret.before, BoostConsumptionDouble)
        /\ ~DoubleGreater(DoubleOf(MIN_SEGMENTS_FOR_BOOST), sret.before) =>
              ~DoubleGreater(DoubleOf(MIN_SEGMENTS_FOR_BOOST), snake.size)

=============================================================================
